---------------------------- MODULE Spec2Model ----------------------------
(***************************************************************************)
(* A model of the s3x gateway's lifecycle sweeper (startDailyLifecycle,    *)
(* lifecycleRound) and of the donut object cache (Cache.MakeBucket,        *)
(* Cache.CreateObject, Cache.GetObject, ...), and of the gateway's ledger   *)
(* (ledgerStore).                                                          *)
(*                                                                         *)
(* Time is counted in minutes.  Strings that the code concatenates or      *)
(* compares are sequences of byte values.                                  *)
(***************************************************************************)
EXTENDS Integers, Sequences, FiniteSets, TLC

(***************************************************************************)
(* Bounds of the model.                                                    *)
(***************************************************************************)
\* number of sweeper nodes sharing the distributed lock
NumNodes == 2
\* the wall clock (minutes) that time.Now() reads
Epoch == 2000

(***************************************************************************)
(* Program constants of the sweeper.                                       *)
(***************************************************************************)
bgLifecycleInterval == 1440
bgLifecycleTick == 60
\* time.Minute, the back-off of the default case
backoffMinute == 1
\* the largest number of keys of one delete request (1000 in the program),
\* scaled down so that a bucket holds more keys to delete than one request
\* takes
maxObjectList == 2

VARIABLES
    \* ---- lifecycle sweeper ----
    LastActivity,   \* globalLifecycleOps.LastActivity of each node
    spc,            \* each node's position in startDailyLifecycle / lifecycleRound
    recent,         \* the value of the condition of line 87 in this iteration
    sleepFor,       \* minutes of the node's current time.Sleep, 0 when awake
    sweepLock,      \* holder of the lock system/daily-lifecycle-ops, 0 when free
    acquired,       \* GetLock succeeded in the node's current round
    unlockCalls,    \* Unlock calls made in the node's current round
    roundErr,       \* what lifecycleRound returns
    todo,           \* buckets still to visit in the round
    cur,            \* the bucket being walked
    objInfoCh,      \* objects Walk still has to stream
    objects,        \* the batch collected for DeleteObjects
    store,          \* the storage layer: bucket -> set of object names
    deleteErrs,     \* what the node's last DeleteObjects returned
    events,         \* the events sendEvent was called with
    \* ---- object cache ----
    clients,        \* the request threads that call into the cache
    donut,          \* cache.donut # nil: a persistent backend is configured
    otherBuckets,   \* stored buckets whose names no request of the model uses
    storedBuckets,  \* cache.storedBuckets: name -> [ACL, objectMetadata]
    heap,           \* the Go maps storedBucket.objectMetadata refers to
    cacheObjects,   \* cache.objects, the byte cache: objectKey -> bytes
    lockR,          \* cache.lock: read locks held
    lockW,          \* cache.lock: the write lock is held
    donutBuckets,   \* the backend's buckets
    donutObjects,   \* the backend's objects: objectKey -> bytes
    cpc,            \* each thread's position in its operation
    loc,            \* each thread's arguments and local variables
    ret,            \* what the thread's operation returned
    \* ---- ledger ----
    ledgerClients,  \* the request threads that call into the ledger
    ledgerLock,     \* holder of the ledgerStore's lock, 0 when free
    Buckets,        \* ls.l.Buckets: name -> [IpfsHash, Objects]
    MultipartUploads, \* ls.l.MultipartUploads: nil, or id -> *MultipartUpload
    dsOpen,         \* the datastore ls.ds has not been closed
    ledgerFatal,    \* the runtime stopped the process on a concurrent map access
    lpc,            \* each thread's position in its ledger operation
    lloc,           \* each thread's arguments
    lret            \* what the thread's ledger operation returned

sweeperVars == <<LastActivity, spc, recent, sleepFor, sweepLock, acquired,
                 unlockCalls, roundErr, todo, cur, objInfoCh, objects, store,
                 deleteErrs, events>>

cacheVars == <<clients, donut, otherBuckets, storedBuckets, heap, cacheObjects,
               lockR, lockW, donutBuckets, donutObjects, cpc, loc, ret>>

ledgerVars == <<ledgerClients, ledgerLock, Buckets, MultipartUploads, dsOpen,
                ledgerFatal, lpc, lloc, lret>>

vars == <<sweeperVars, cacheVars, ledgerVars>>

Nodes == 1..NumNodes

(***************************************************************************)
(* The storage layer and the lifecycle configuration the sweeper reads.    *)
(***************************************************************************)
SweepBuckets == <<"b1", "b2">>

InitialStore == [b \in {"b1", "b2"} |->
                    IF b = "b1" THEN {"o1", "o2", "o4", "o5", "o6"}
                    ELSE {"o3"}]

\* globalLifecycleSys.Get: only b1 has a lifecycle policy
HasLifecycle(b) == b = "b1"

\* l.ComputeAction(obj...) == lifecycle.DeleteAction
IsDeleteAction(b, o) == b = "b1" /\ o \in {"o1", "o4", "o5", "o6"}

\* The objects of a set as the sequence Walk streams them.
RECURSIVE SeqOfSet(_)
SeqOfSet(S) == IF S = {} THEN <<>>
               ELSE LET x == CHOOSE y \in S : TRUE
                    IN <<x>> \o SeqOfSet(S \ {x})

(***************************************************************************)
(* computeLastLifecycleActivity: the latest LastActivity of the statuses.  *)
(***************************************************************************)
RECURSIVE computeLastLifecycleActivity(_)
computeLastLifecycleActivity(status) ==
    IF status = <<>> THEN 0
    ELSE LET rest == computeLastLifecycleActivity(Tail(status))
         IN IF Head(status) > rest THEN Head(status) ELSE rest

\* The statuses the peers may report (globalNotificationSys.BackgroundOpsStatus):
\* never active, active exactly one interval ago, active a minute ago.
PeerStatuses(t) == {<<0>>, <<t - bgLifecycleInterval>>, <<t - 1>>}

\* What time.Now() may read.
Times == {Epoch}

(***************************************************************************)
(* startDailyLifecycle, lines 78-89: decide whether a sweep is due.        *)
(***************************************************************************)
LoopCheck(n) ==
    /\ spc[n] = "loop"
    /\ \E t \in Times : \E peers \in PeerStatuses(t) :
         LET allLifecycleStatus == <<LastActivity[n]>> \o peers
             lastAct == computeLastLifecycleActivity(allLifecycleStatus)
             isRecent == lastAct # 0 /\ t - lastAct < bgLifecycleInterval
         IN /\ recent' = [recent EXCEPT ![n] = isRecent]
            /\ IF isRecent
               THEN /\ spc' = [spc EXCEPT ![n] = "sleep88"]
                    /\ sleepFor' = [sleepFor EXCEPT ![n] = bgLifecycleTick]
               ELSE /\ spc' = [spc EXCEPT ![n] = "round"]
                    /\ sleepFor' = sleepFor
    /\ UNCHANGED <<cacheVars, ledgerVars>>
    /\ UNCHANGED <<deleteErrs, events, LastActivity, sweepLock, acquired, unlockCalls,
                   roundErr, todo, cur, objInfoCh, objects, store>>

\* line 88: time.Sleep(bgLifecycleTick), after which line 92 follows.
SleepTick88(n) ==
    /\ spc[n] = "sleep88"
    /\ spc' = [spc EXCEPT ![n] = "round"]
    /\ sleepFor' = [sleepFor EXCEPT ![n] = 0]
    /\ UNCHANGED <<cacheVars, ledgerVars>>
    /\ UNCHANGED <<deleteErrs, events, LastActivity, recent, sweepLock, acquired,
                   unlockCalls, roundErr, todo, cur, objInfoCh, objects, store>>

(***************************************************************************)
(* lifecycleRound, lines 109-115: GetLock with a bounded wait.             *)
(***************************************************************************)
GetLock(n) ==
    /\ spc[n] = "round"
    /\ unlockCalls' = [unlockCalls EXCEPT ![n] = 0]
    /\ IF sweepLock = 0
       THEN /\ sweepLock' = n
            /\ acquired' = [acquired EXCEPT ![n] = TRUE]
            /\ spc' = [spc EXCEPT ![n] = "listBuckets"]
       ELSE /\ sweepLock' = sweepLock
            /\ acquired' = [acquired EXCEPT ![n] = FALSE]
            /\ spc' = [spc EXCEPT ![n] = "lockWait"]
    /\ UNCHANGED <<cacheVars, ledgerVars>>
    /\ UNCHANGED <<deleteErrs, events, LastActivity, recent, sleepFor, roundErr, todo, cur,
                   objInfoCh, objects, store>>

\* lifecycleRound as it would be if it went on although GetLock timed out.
GetLockWaitIgnoringError(n) ==
    /\ spc[n] = "lockWait"
    /\ \/ /\ sweepLock = 0
          /\ sweepLock' = n
          /\ acquired' = [acquired EXCEPT ![n] = TRUE]
          /\ spc' = [spc EXCEPT ![n] = "listBuckets"]
          /\ roundErr' = roundErr
       \/ /\ sweepLock # 0
          /\ roundErr' = [roundErr EXCEPT ![n] = "OperationTimedOut"]
          /\ spc' = [spc EXCEPT ![n] = "listBuckets"]
          /\ UNCHANGED <<sweepLock, acquired>>
    /\ UNCHANGED <<cacheVars, ledgerVars>>
    /\ UNCHANGED <<deleteErrs, events, LastActivity, recent, sleepFor, unlockCalls, todo, cur,
                   objInfoCh, objects, store>>

\* The wait inside GetLock: the lock comes free, or the timeout passes and
\* lifecycleRound returns the error (line 113) with no Unlock deferred.
GetLockWait(n) ==
    /\ spc[n] = "lockWait"
    /\ \/ /\ sweepLock = 0
          /\ sweepLock' = n
          /\ acquired' = [acquired EXCEPT ![n] = TRUE]
          /\ spc' = [spc EXCEPT ![n] = "listBuckets"]
          /\ roundErr' = roundErr
       \/ /\ sweepLock # 0
          /\ roundErr' = [roundErr EXCEPT ![n] = "OperationTimedOut"]
          /\ spc' = [spc EXCEPT ![n] = "switch"]
          /\ UNCHANGED <<sweepLock, acquired>>
    /\ UNCHANGED <<cacheVars, ledgerVars>>
    /\ UNCHANGED <<deleteErrs, events, LastActivity, recent, sleepFor, unlockCalls, todo, cur,
                   objInfoCh, objects, store>>

\* lifecycleRound as it would be if the ListBuckets error path returned
\* without releasing the lock.
ListBucketsNoDefer(n) ==
    /\ spc[n] = "listBuckets"
    /\ \/ /\ roundErr' = [roundErr EXCEPT ![n] = "ListBucketsError"]
          /\ spc' = [spc EXCEPT ![n] = "switch"]
          /\ todo' = todo
       \/ /\ todo' = [todo EXCEPT ![n] = SweepBuckets]
          /\ spc' = [spc EXCEPT ![n] = "bucketLoop"]
          /\ roundErr' = roundErr
    /\ UNCHANGED <<cacheVars, ledgerVars>>
    /\ UNCHANGED <<deleteErrs, events, LastActivity, recent, sleepFor, sweepLock, acquired,
                   unlockCalls, cur, objInfoCh, objects, store>>

\* lines 117-120: objAPI.ListBuckets, which may fail.
ListBuckets(n) ==
    /\ spc[n] = "listBuckets"
    /\ \/ /\ roundErr' = [roundErr EXCEPT ![n] = "ListBucketsError"]
          /\ spc' = [spc EXCEPT ![n] = "deferUnlock"]
          /\ todo' = todo
       \/ /\ todo' = [todo EXCEPT ![n] = SweepBuckets]
          /\ spc' = [spc EXCEPT ![n] = "bucketLoop"]
          /\ roundErr' = roundErr
    /\ UNCHANGED <<cacheVars, ledgerVars>>
    /\ UNCHANGED <<deleteErrs, events, LastActivity, recent, sleepFor, sweepLock, acquired,
                   unlockCalls, cur, objInfoCh, objects, store>>

\* The loop over the buckets as it would be if it walked every bucket.
BucketLoopEveryBucket(n) ==
    /\ spc[n] = "bucketLoop"
    /\ IF todo[n] = <<>>
       THEN /\ roundErr' = [roundErr EXCEPT ![n] = "nil"]
            /\ spc' = [spc EXCEPT ![n] = "deferUnlock"]
            /\ UNCHANGED <<todo, cur>>
       ELSE /\ cur' = [cur EXCEPT ![n] = Head(todo[n])]
            /\ todo' = [todo EXCEPT ![n] = Tail(todo[n])]
            /\ spc' = [spc EXCEPT ![n] = "walk"]
            /\ roundErr' = roundErr
    /\ UNCHANGED <<cacheVars, ledgerVars>>
    /\ UNCHANGED <<deleteErrs, events, LastActivity, recent, sleepFor, sweepLock, acquired,
                   unlockCalls, objInfoCh, objects, store>>

\* lines 122-127 and 189: the next bucket, skipped when it has no policy;
\* the round returns nil after the last one.
BucketLoop(n) ==
    /\ spc[n] = "bucketLoop"
    /\ IF todo[n] = <<>>
       THEN /\ roundErr' = [roundErr EXCEPT ![n] = "nil"]
            /\ spc' = [spc EXCEPT ![n] = "deferUnlock"]
            /\ UNCHANGED <<todo, cur>>
       ELSE /\ cur' = [cur EXCEPT ![n] = Head(todo[n])]
            /\ todo' = [todo EXCEPT ![n] = Tail(todo[n])]
            /\ spc' = [spc EXCEPT ![n] =
                          IF HasLifecycle(Head(todo[n])) THEN "walk"
                          ELSE "bucketLoop"]
            /\ roundErr' = roundErr
    /\ UNCHANGED <<cacheVars, ledgerVars>>
    /\ UNCHANGED <<deleteErrs, events, LastActivity, recent, sleepFor, sweepLock, acquired,
                   unlockCalls, objInfoCh, objects, store>>

\* lines 137-142: objAPI.Walk, which fails or starts streaming the bucket.
Walk(n) ==
    /\ spc[n] = "walk"
    /\ \/ /\ roundErr' = [roundErr EXCEPT ![n] = "WalkError"]
          /\ spc' = [spc EXCEPT ![n] = "deferUnlock"]
          /\ objInfoCh' = objInfoCh
       \/ /\ objInfoCh' = [objInfoCh EXCEPT ![n] = SeqOfSet(store[cur[n]])]
          /\ spc' = [spc EXCEPT ![n] = "batch"]
          /\ roundErr' = roundErr
    /\ UNCHANGED <<cacheVars, ledgerVars>>
    /\ UNCHANGED <<deleteErrs, events, LastActivity, recent, sleepFor, sweepLock, acquired,
                   unlockCalls, todo, cur, objects, store>>

\* lines 145-156: receive from the channel until it is closed or the batch
\* is full; the object received when the batch is full is not kept.
RECURSIVE Collect(_, _, _)
Collect(b, ch, objs) ==
    IF ch = <<>> THEN [objects |-> objs, ch |-> ch]
    ELSE IF Len(objs) = maxObjectList THEN [objects |-> objs, ch |-> Tail(ch)]
    ELSE Collect(b, Tail(ch),
                 IF IsDeleteAction(b, Head(ch)) THEN Append(objs, Head(ch))
                 ELSE objs)

\* lines 144-161: one batch; an empty batch ends the bucket.
Batch(n) ==
    /\ spc[n] = "batch"
    /\ LET r == Collect(cur[n], objInfoCh[n], <<>>)
       IN /\ objects' = [objects EXCEPT ![n] = r.objects]
          /\ objInfoCh' = [objInfoCh EXCEPT ![n] = r.ch]
          /\ spc' = [spc EXCEPT ![n] =
                        IF r.objects = <<>> THEN "bucketLoop" ELSE "delete"]
    /\ UNCHANGED <<cacheVars, ledgerVars>>
    /\ UNCHANGED <<deleteErrs, events, LastActivity, recent, sleepFor, sweepLock, acquired,
                   unlockCalls, roundErr, todo, cur, store>>

\* What DeleteObjects reports: the error of the call and one entry for each
\* object, "nil" or the error of that object.
NoDeleteErrs == [err |-> "nil", errs |-> <<>>]

\* the event of a deleted object, lines 176-183
ObjectRemovedDelete(bucket, name) ==
    [EventName |-> "ObjectRemovedDelete", BucketName |-> bucket,
     Object |-> name, Host |-> "Internal: [ILM-EXPIRY]"]

\* lines 163-166: objAPI.DeleteObjects; the call fails as a whole, or
\* reports for each object that it is deleted or why it is not.
DeleteObjects(n) ==
    /\ spc[n] = "delete"
    /\ \/ /\ deleteErrs' = [deleteErrs EXCEPT ![n] =
                                [err |-> "DeleteObjectsError", errs |-> <<>>]]
          /\ store' = store
       \/ \E errs \in [1..Len(objects[n]) -> {"nil", "ObjectError"}] :
             /\ deleteErrs' = [deleteErrs EXCEPT ![n] =
                                   [err |-> "nil", errs |-> errs]]
             /\ store' = [store EXCEPT ![cur[n]] =
                              @ \ {objects[n][i] :
                                      i \in {k \in 1..Len(objects[n]) :
                                                errs[k] = "nil"}}]
    /\ spc' = [spc EXCEPT ![n] = "notify"]
    /\ UNCHANGED <<cacheVars, ledgerVars>>
    /\ UNCHANGED <<events, LastActivity, recent, sleepFor, sweepLock, acquired,
                   unlockCalls, roundErr, todo, cur, objInfoCh, objects>>

\* The loop over the results as it would be if the error of an object ended
\* it.
SendEventsUntilError(n) ==
    /\ spc[n] = "notify"
    /\ LET errs == deleteErrs[n].errs
           sent == {i \in 1..Len(errs) :
                       \A k \in 1..i : errs[k] = "nil"}
       IN events' = events \cup
             (IF deleteErrs[n].err # "nil" THEN {}
              ELSE {ObjectRemovedDelete(cur[n], objects[n][i]) : i \in sent})
    /\ deleteErrs' = [deleteErrs EXCEPT ![n] = NoDeleteErrs]
    /\ spc' = [spc EXCEPT ![n] = "batch"]
    /\ UNCHANGED <<cacheVars, ledgerVars>>
    /\ UNCHANGED <<LastActivity, recent, sleepFor, sweepLock, acquired,
                   unlockCalls, roundErr, todo, cur, objInfoCh, objects, store>>

\* lines 167-186: the error of the call is logged; otherwise the error of
\* an object is logged and the loop goes on, and the event of every other
\* object is sent.  The next batch follows.
SendEvents(n) ==
    /\ spc[n] = "notify"
    /\ LET errs == deleteErrs[n].errs
           sent == {i \in 1..Len(errs) : errs[i] = "nil"}
       IN events' = events \cup
             (IF deleteErrs[n].err # "nil" THEN {}
              ELSE {ObjectRemovedDelete(cur[n], objects[n][i]) : i \in sent})
    /\ deleteErrs' = [deleteErrs EXCEPT ![n] = NoDeleteErrs]
    /\ spc' = [spc EXCEPT ![n] = "batch"]
    /\ UNCHANGED <<cacheVars, ledgerVars>>
    /\ UNCHANGED <<LastActivity, recent, sleepFor, sweepLock, acquired,
                   unlockCalls, roundErr, todo, cur, objInfoCh, objects, store>>

\* line 115: the deferred sweepLock.Unlock(), run when the round returns.
DeferUnlock(n) ==
    /\ spc[n] = "deferUnlock"
    /\ sweepLock' = IF sweepLock = n THEN 0 ELSE sweepLock
    /\ unlockCalls' = [unlockCalls EXCEPT ![n] = @ + 1]
    /\ spc' = [spc EXCEPT ![n] = "switch"]
    \* the round's local variables end with it
    /\ todo' = [todo EXCEPT ![n] = <<>>]
    /\ cur' = [cur EXCEPT ![n] = "b1"]
    /\ objInfoCh' = [objInfoCh EXCEPT ![n] = <<>>]
    /\ objects' = [objects EXCEPT ![n] = <<>>]
    /\ UNCHANGED <<cacheVars, ledgerVars>>
    /\ UNCHANGED <<deleteErrs, events, LastActivity, recent, sleepFor, acquired, roundErr, store>>

\* The switch as it would be if a failure other than the lock timeout ended
\* the goroutine.
SwitchReturnOnError(n) ==
    /\ spc[n] = "switch"
    /\ IF roundErr[n] = "OperationTimedOut"
       THEN /\ spc' = [spc EXCEPT ![n] = "sleep97"]
            /\ sleepFor' = [sleepFor EXCEPT ![n] = bgLifecycleTick]
       ELSE IF roundErr[n] = "nil"
       THEN /\ spc' = [spc EXCEPT ![n] = "sleep100"]
            /\ sleepFor' = [sleepFor EXCEPT ![n] = backoffMinute]
       ELSE /\ spc' = [spc EXCEPT ![n] = "returned"]
            /\ sleepFor' = sleepFor
    /\ UNCHANGED <<cacheVars, ledgerVars>>
    /\ UNCHANGED <<deleteErrs, events, LastActivity, recent, sweepLock, acquired,
                   unlockCalls, roundErr, todo, cur, objInfoCh, objects, store>>

\* lines 93-102: a lock timeout sleeps a tick; everything else, nil
\* included, is logged and sleeps a minute.
Switch(n) ==
    /\ spc[n] = "switch"
    /\ IF roundErr[n] = "OperationTimedOut"
       THEN /\ spc' = [spc EXCEPT ![n] = "sleep97"]
            /\ sleepFor' = [sleepFor EXCEPT ![n] = bgLifecycleTick]
       ELSE /\ spc' = [spc EXCEPT ![n] = "sleep100"]
            /\ sleepFor' = [sleepFor EXCEPT ![n] = backoffMinute]
    /\ UNCHANGED <<cacheVars, ledgerVars>>
    /\ UNCHANGED <<deleteErrs, events, LastActivity, recent, sweepLock, acquired,
                   unlockCalls, roundErr, todo, cur, objInfoCh, objects, store>>

\* lines 97 and 100: the sleep ends and the loop starts over.
SleepAfterRound(n) ==
    /\ spc[n] \in {"sleep97", "sleep100"}
    /\ spc' = [spc EXCEPT ![n] = "loop"]
    /\ sleepFor' = [sleepFor EXCEPT ![n] = 0]
    /\ roundErr' = [roundErr EXCEPT ![n] = "nil"]
    /\ recent' = [recent EXCEPT ![n] = FALSE]
    /\ acquired' = [acquired EXCEPT ![n] = FALSE]
    /\ unlockCalls' = [unlockCalls EXCEPT ![n] = 0]
    /\ UNCHANGED <<cacheVars, ledgerVars>>
    /\ UNCHANGED <<deleteErrs, events, LastActivity, sweepLock, todo, cur, objInfoCh, objects, store>>

(***************************************************************************)
(* The object cache (pkg/storage/donut/cache.go).                          *)
(*                                                                         *)
(* Names are byte sequences: "foo" is <<102, 111, 111>>, "/" is <<47>>.    *)
(* A request thread runs one operation at a time.  Each action is one      *)
(* critical section of cache.lock together with the unlocked code around   *)
(* it; an operation ends in "done" with its result in ret, and Return      *)
(* hands the result to the caller.                                         *)
(***************************************************************************)
\* total Number of buckets allowed
totalBuckets == 100
\* cache.maxSize, the capacity NewCache is given, in bytes
maxSize == 1
\* read locks the model lets operations leave held
MaxLeaks == 1

AllClients == {1, 2}

foo == <<102, 111, 111>>
bar == <<98, 97, 114>>
obj == <<111, 98, 106>>
slash == <<47>>

\* bucket names a request may carry: "foo", "bar" and the invalid " "
BucketArgs == {foo, bar, <<32>>}
\* object names a request may carry: "obj" and the invalid ""
ObjectArgs == {obj, <<>>}
ACLArgs == {"private", "", "bogus"}
\* object contents a request may carry; the longest exceeds the capacity
Payloads == {<<>>, <<7>>, <<9>>, [i \in 1..(maxSize + 1) |-> 7]}

EmptyMap == [x \in {} |-> x]
MapPut(m, k, v) == [x \in (DOMAIN m) \cup {k} |-> IF x = k THEN v ELSE m[x]]
MapDel(m, k) == [x \in (DOMAIN m) \ {k} |-> m[x]]

\* IsValidBucket: 3 to 63 characters, lower-case letters, digits, '-' or '.'
IsValidBucket(b) ==
    /\ Len(b) >= 3 /\ Len(b) <= 63
    /\ \A i \in 1..Len(b) :
          b[i] \in (97..122) \cup (48..57) \cup {45, 46}

\* IsValidObjectName: not blank, at most 1024 characters
IsValidObjectName(o) ==
    /\ Len(o) >= 1 /\ Len(o) <= 1024
    /\ \E i \in 1..Len(o) : o[i] # 32

IsValidBucketACL(acl) == acl \in {"private", "public-read", "public-read-write", ""}

\* strings.TrimSpace(s) == ""
IsBlank(s) == s \in {"", " "}

\* objectKey := bucket + "/" + object
ObjectKey(b, o) == b \o slash \o o

\* len(cache.storedBuckets)
NumBuckets == otherBuckets + Cardinality(DOMAIN storedBuckets)

\* a < b for strings, byte by byte
RECURSIVE LexLess(_, _)
LexLess(a, b) ==
    IF b = <<>> THEN FALSE
    ELSE IF a = <<>> THEN TRUE
    ELSE IF Head(a) # Head(b) THEN Head(a) < Head(b)
    ELSE LexLess(Tail(a), Tail(b))

\* sort.Sort(byBucketName(results)) over names
RECURSIVE SortNames(_)
SortNames(S) ==
    IF S = {} THEN <<>>
    ELSE LET m == CHOOSE x \in S : \A y \in S \ {x} : LexLess(x, y)
         IN <<m>> \o SortNames(S \ {m})

(***************************************************************************)
(* Digests.  MD5 is taken to be collision-free: the digest of a byte       *)
(* sequence is a value that determines it.  A digest string is the raw     *)
(* digest with its encoding; "none" is the empty string and "bad" a string *)
(* that is not base64.                                                     *)
(***************************************************************************)
Md5Sum(data) == [md5of |-> data]
NoDigest == [enc |-> "none", raw |-> Md5Sum(<<>>)]
BadBase64 == [enc |-> "bad", raw |-> Md5Sum(<<>>)]
Base64Encode(raw) == [enc |-> "b64", raw |-> raw]
HexEncode(raw) == [enc |-> "hex", raw |-> raw]
\* base64.StdEncoding.DecodeString
Base64Decode(s) == [ok |-> s.enc = "b64", raw |-> s.raw]
\* hex.DecodeString
HexDecode(s) == [ok |-> s.enc = "hex", raw |-> s.raw]

\* isMD5SumEqual: nil ("ok") only when both decode from hex to equal bytes
isMD5SumEqual(expectedMD5Sum, actualMD5Sum) ==
    IF expectedMD5Sum.enc # "none" /\ actualMD5Sum.enc # "none"
    THEN IF ~HexDecode(expectedMD5Sum).ok THEN "error"
         ELSE IF ~HexDecode(actualMD5Sum).ok THEN "error"
         ELSE IF HexDecode(expectedMD5Sum).raw # HexDecode(actualMD5Sum).raw
              THEN "bad digest"
         ELSE "ok"
    ELSE "invalid argument"

\* the digests a request may carry with payload data
DigestArgs(data) ==
    {NoDigest, BadBase64, Base64Encode(Md5Sum(data)),
     Base64Encode(Md5Sum(data \o <<1>>))}

NoMeta == [Size |-> -1, MD5Sum |-> NoDigest]

\* BucketResourcesMetadata{}: the request of a listing and its answer
NoResources == [Prefix |-> <<>>, Marker |-> <<>>, Delimiter |-> <<>>,
                Maxkeys |-> 0, CommonPrefixes |-> <<>>,
                IsTruncated |-> FALSE, NextMarker |-> <<>>]

NoLoc == [op |-> "none", bucket |-> <<>>, key |-> <<>>, acl |-> "",
          expected |-> NoDigest, data |-> <<>>, rest |-> <<>>, read |-> <<>>,
          sb |-> [ACL |-> "", objectMetadata |-> 0],
          start |-> 0, length |-> 0, out |-> <<>>, meta |-> NoMeta,
          existed |-> FALSE, calls |-> <<>>]

\* calls: the calls on cache.lock and on the backend that the operation
\* made, in order; GetObject and GetPartialObject record them.
NoRet == [op |-> "none", bucket |-> <<>>, key |-> <<>>, acl |-> "",
          err |-> "nil", out |-> <<>>, n |-> 0, meta |-> NoMeta,
          expected |-> NoDigest, data |-> <<>>, start |-> 0, length |-> 0,
          existed |-> FALSE, list |-> <<>>, calls |-> <<>>,
          request |-> NoResources, resources |-> NoResources]

\* cache.lock.RLock() and cache.lock.Lock() can be taken
CanRLock == ~lockW
CanLock == ~lockW /\ lockR = 0

\* The operation of thread p ends with result r.
Finish(p, r) ==
    /\ cpc' = [cpc EXCEPT ![p] = "done"]
    /\ ret' = [ret EXCEPT ![p] = r]
    /\ loc' = [loc EXCEPT ![p] = NoLoc]

\* The caller takes the result.
Return(p) ==
    /\ cpc[p] = "done"
    /\ cpc' = [cpc EXCEPT ![p] = "idle"]
    /\ ret' = [ret EXCEPT ![p] = NoRet]
    /\ UNCHANGED <<clients, donut, otherBuckets, storedBuckets, heap,
                   cacheObjects, lockR, lockW, donutBuckets, donutObjects, loc>>
    /\ UNCHANGED <<sweeperVars, ledgerVars>>

(***************************************************************************)
(* Cache.MakeBucket, lines 427-468.                                        *)
(***************************************************************************)
\* lines 428-450: the checks under the read lock, then the default ACL.
MakeBucketCheck(p) ==
    /\ cpc[p] = "idle" /\ p \in clients
    /\ CanRLock
    /\ \E bucketName \in BucketArgs : \E acl \in ACLArgs :
         LET r == [NoRet EXCEPT !.op = "MakeBucket", !.bucket = bucketName,
                                !.acl = acl,
                                !.existed = bucketName \in DOMAIN storedBuckets]
         IN IF NumBuckets = totalBuckets
            THEN Finish(p, [r EXCEPT !.err = "TooManyBuckets"])
            ELSE IF ~IsValidBucket(bucketName)
            THEN Finish(p, [r EXCEPT !.err = "BucketNameInvalid"])
            ELSE IF ~IsValidBucketACL(acl)
            THEN Finish(p, [r EXCEPT !.err = "InvalidACL"])
            ELSE IF bucketName \in DOMAIN storedBuckets
            THEN Finish(p, [r EXCEPT !.err = "BucketExists"])
            ELSE /\ cpc' = [cpc EXCEPT ![p] =
                               IF donut THEN "mbDonut" ELSE "mbInstall"]
                 /\ loc' = [loc EXCEPT ![p] =
                               [NoLoc EXCEPT !.op = "MakeBucket",
                                             !.bucket = bucketName,
                                             !.acl = IF IsBlank(acl) THEN "private"
                                                     ELSE acl]]
                 /\ ret' = ret
    /\ UNCHANGED <<clients, donut, otherBuckets, storedBuckets, heap,
                   cacheObjects, lockR, lockW, donutBuckets, donutObjects>>
    /\ UNCHANGED <<sweeperVars, ledgerVars>>

\* lines 451-455: the backend creates the bucket, or refuses one it has.
MakeBucketDonut(p) ==
    /\ cpc[p] = "mbDonut"
    /\ IF loc[p].bucket \in donutBuckets
       THEN /\ Finish(p, [NoRet EXCEPT !.op = "MakeBucket",
                                       !.bucket = loc[p].bucket,
                                       !.acl = loc[p].acl,
                                       !.err = "BucketExists"])
            /\ donutBuckets' = donutBuckets
       ELSE /\ donutBuckets' = donutBuckets \cup {loc[p].bucket}
            /\ cpc' = [cpc EXCEPT ![p] = "mbInstall"]
            /\ UNCHANGED <<loc, ret>>
    /\ UNCHANGED <<clients, donut, otherBuckets, storedBuckets, heap,
                   cacheObjects, lockR, lockW, donutObjects>>
    /\ UNCHANGED <<sweeperVars, ledgerVars>>

\* MakeBucket as it would be if the last step reported success without
\* putting the bucket into cache.storedBuckets.
MakeBucketInstallDropped(p) ==
    /\ cpc[p] = "mbInstall"
    /\ CanLock
    /\ Finish(p, [NoRet EXCEPT !.op = "MakeBucket", !.bucket = loc[p].bucket,
                               !.acl = loc[p].acl])
    /\ UNCHANGED <<clients, donut, otherBuckets, storedBuckets, heap,
                   cacheObjects, lockR, lockW, donutBuckets, donutObjects>>
    /\ UNCHANGED <<sweeperVars, ledgerVars>>

\* lines 456-467: the new storedBucket, with fresh maps, is installed under
\* the write lock.
MakeBucketInstall(p) ==
    /\ cpc[p] = "mbInstall"
    /\ CanLock
    /\ heap' = Append(heap, EmptyMap)
    /\ storedBuckets' = MapPut(storedBuckets, loc[p].bucket,
                               [ACL |-> loc[p].acl,
                                objectMetadata |-> Len(heap) + 1])
    /\ Finish(p, [NoRet EXCEPT !.op = "MakeBucket", !.bucket = loc[p].bucket,
                               !.acl = loc[p].acl])
    /\ UNCHANGED <<clients, donut, otherBuckets, cacheObjects, lockR, lockW,
                   donutBuckets, donutObjects>>
    /\ UNCHANGED <<sweeperVars, ledgerVars>>

(***************************************************************************)
(* Cache.ListBuckets, lines 564-573.                                       *)
(***************************************************************************)
\* The names of the listed buckets, sorted (the buckets of otherBuckets
\* are listed too and are left out here).
\* ListBuckets as it would be if byBucketName.Less compared the other way.
ListBucketsDescending ==
    LET up == SortNames(DOMAIN storedBuckets)
    IN [i \in 1..Len(up) |-> up[Len(up) + 1 - i]]

ListBucketsResult == SortNames(DOMAIN storedBuckets)

ListBuckets564(p) ==
    /\ cpc[p] = "idle" /\ p \in clients
    /\ CanRLock
    /\ Finish(p, [NoRet EXCEPT !.op = "ListBuckets", !.list = ListBucketsResult])
    /\ UNCHANGED <<clients, donut, otherBuckets, storedBuckets, heap,
                   cacheObjects, lockR, lockW, donutBuckets, donutObjects>>
    /\ UNCHANGED <<sweeperVars, ledgerVars>>

(***************************************************************************)
(* The byte cache (trove.Cache): bounded by maxSize bytes; to make room it *)
(* deletes entries, any of them, and reports each through OnExpired.       *)
(***************************************************************************)
RECURSIVE SumLen(_, _)
SumLen(items, keys) ==
    IF keys = {} THEN 0
    ELSE LET k == CHOOSE x \in keys : TRUE
         IN Len(items[k]) + SumLen(items, keys \ {k})

\* the bytes the cache holds
CurrentSize(items) == SumLen(items, DOMAIN items)

\* Every way of deleting entries until valueLen more bytes fit.
RECURSIVE MakeRoom(_, _, _)
MakeRoom(items, evicted, valueLen) ==
    IF CurrentSize(items) + valueLen <= maxSize \/ DOMAIN items = {}
    THEN {[items |-> items, evicted |-> evicted]}
    ELSE UNION {MakeRoom(MapDel(items, k), evicted \cup {k}, valueLen) :
                    k \in DOMAIN items}

\* trove Append: the outcomes of appending value to the entry of key.
TroveAppend(items, key, value) ==
    IF maxSize > 0 /\ Len(value) > maxSize
    THEN {[ok |-> FALSE, items |-> items, evicted |-> {}]}
    ELSE {[ok |-> TRUE,
           items |-> MapPut(r.items, key,
                            IF key \in DOMAIN r.items
                            THEN r.items[key] \o value ELSE value),
           evicted |-> r.evicted] :
             r \in IF maxSize > 0 THEN MakeRoom(items, {}, Len(value))
                   ELSE {[items |-> items, evicted |-> {}]}}

\* trove Set: the outcomes of storing value as the entry of key.
TroveSet(items, key, value) ==
    IF maxSize > 0 /\ Len(value) > maxSize
    THEN {[ok |-> FALSE, items |-> items, evicted |-> {}]}
    ELSE {[ok |-> TRUE, items |-> MapPut(r.items, key, value),
           evicted |-> r.evicted] :
             r \in IF maxSize > 0 THEN MakeRoom(items, {}, Len(value))
                   ELSE {[items |-> items, evicted |-> {}]}}

\* The callback as it would be if it deleted nothing.
expiredObjectKeepsRecords(h, key) == h

(***************************************************************************)
(* Cache.expiredObject, lines 613-623: the OnExpired callback deletes the  *)
(* key from the objectMetadata map of every stored bucket.                 *)
(***************************************************************************)
expiredObject(h, key) ==
    [i \in DOMAIN h |->
        IF \E b \in DOMAIN storedBuckets : storedBuckets[b].objectMetadata = i
        THEN MapDel(h[i], key)
        ELSE h[i]]

\* the callback, once for each evicted key
RECURSIVE ExpireAll(_, _)
ExpireAll(h, keys) ==
    IF keys = {} THEN h
    ELSE LET k == CHOOSE x \in keys : TRUE
         IN ExpireAll(expiredObject(h, k), keys \ {k})

\* The byte cache's own sweep (ExpireObjects) drops an entry for its age.
ExpireObject ==
    /\ \E key \in DOMAIN cacheObjects :
         /\ cacheObjects' = MapDel(cacheObjects, key)
         /\ heap' = expiredObject(heap, key)
    /\ UNCHANGED <<clients, donut, otherBuckets, storedBuckets, lockR, lockW,
                   donutBuckets, donutObjects, cpc, loc, ret>>
    /\ UNCHANGED <<sweeperVars, ledgerVars>>

(***************************************************************************)
(* The backend (Donut), which keeps what it is given.                      *)
(***************************************************************************)
\* the metadata the backend reports for stored bytes
DonutMetadata(data) == [Size |-> Len(data), MD5Sum |-> HexEncode(Md5Sum(data))]

\* donut.PutObject: the error, or "nil"
DonutPutObjectErr(bucket, key, expectedMD5Sum, data) ==
    IF bucket \notin donutBuckets THEN "BucketNotFound"
    ELSE IF ObjectKey(bucket, key) \in DOMAIN donutObjects THEN "ObjectExists"
    ELSE IF /\ expectedMD5Sum.enc # "none"
            /\ isMD5SumEqual(expectedMD5Sum, HexEncode(Md5Sum(data))) # "ok"
         THEN "BadDigest"
    ELSE "nil"

(***************************************************************************)
(* Cache.CreateObject and Cache.createObject, lines 307-424.               *)
(***************************************************************************)
\* the buffer of one data.Read
chunkSize == 1048576

Min(a, b) == IF a <= b THEN a ELSE b
Take(seq, k) == SubSeq(seq, 1, k)
Drop(seq, k) == SubSeq(seq, k + 1, Len(seq))

\* whether the bucket's objectMetadata map sb refers to has the key
HasMetadata(sb, objectKey) == objectKey \in DOMAIN heap[sb.objectMetadata]

\* lines 308-357: the size check, the checks under the read lock, the
\* decoding of the expected digest.
CreateObjectCheck(p) ==
    /\ cpc[p] = "idle" /\ p \in clients
    /\ \E bucket \in BucketArgs : \E key \in ObjectArgs :
       \E data \in Payloads : \E expectedMD5Sum \in DigestArgs(data) :
         LET size == Len(data)
             objectKey == ObjectKey(bucket, key)
             r == [NoRet EXCEPT !.op = "CreateObject", !.bucket = bucket,
                                !.key = key, !.data = data,
                                !.expected = expectedMD5Sum]
         IN IF size > maxSize
            THEN Finish(p, [r EXCEPT !.err = "EntityTooLarge"])
            ELSE
            /\ CanRLock
            /\ IF ~IsValidBucket(bucket)
               THEN Finish(p, [r EXCEPT !.err = "BucketNameInvalid"])
               ELSE IF ~IsValidObjectName(key)
               THEN Finish(p, [r EXCEPT !.err = "ObjectNameInvalid"])
               ELSE IF bucket \notin DOMAIN storedBuckets
               THEN Finish(p, [r EXCEPT !.err = "BucketNotFound"])
               ELSE IF HasMetadata(storedBuckets[bucket], objectKey)
               THEN Finish(p, [r EXCEPT !.err = "ObjectExists"])
               ELSE IF expectedMD5Sum.enc # "none" /\ ~Base64Decode(expectedMD5Sum).ok
               THEN Finish(p, [r EXCEPT !.err = "InvalidDigest"])
               ELSE /\ cpc' = [cpc EXCEPT ![p] =
                                  IF donut THEN "coDonut" ELSE "coRead"]
                    /\ loc' = [loc EXCEPT ![p] =
                         [NoLoc EXCEPT
                            !.op = "CreateObject", !.bucket = bucket,
                            !.key = key, !.data = data, !.rest = data,
                                                        !.expected =
                               IF expectedMD5Sum.enc = "none" THEN NoDigest
                               ELSE HexEncode(Base64Decode(expectedMD5Sum).raw),
                            !.sb = storedBuckets[bucket]]]
                    /\ ret' = ret
    /\ UNCHANGED <<clients, donut, otherBuckets, storedBuckets, heap,
                   cacheObjects, lockR, lockW, donutBuckets, donutObjects>>
    /\ UNCHANGED <<sweeperVars, ledgerVars>>

\* the result of a createObject that got past the checks
CreateObjectRet(p) ==
    [NoRet EXCEPT !.op = "CreateObject", !.bucket = loc[p].bucket,
                  !.key = loc[p].key, !.data = loc[p].data,
                  !.expected = IF loc[p].expected.enc = "none" THEN NoDigest
                               ELSE Base64Encode(loc[p].expected.raw)]

\* lines 359-363: with a backend, the whole write is the backend's.
CreateObjectDonut(p) ==
    /\ cpc[p] = "coDonut"
    /\ LET e == DonutPutObjectErr(loc[p].bucket, loc[p].key, loc[p].expected,
                                  loc[p].data)
       IN IF e # "nil"
          THEN /\ Finish(p, [CreateObjectRet(p) EXCEPT !.err = e])
               /\ donutObjects' = donutObjects
          ELSE /\ donutObjects' = MapPut(donutObjects,
                                         ObjectKey(loc[p].bucket, loc[p].key),
                                         loc[p].data)
               /\ cpc' = [cpc EXCEPT ![p] = "coDonutStore"]
               /\ loc' = [loc EXCEPT ![p].meta = DonutMetadata(loc[p].data)]
               /\ ret' = ret
    /\ UNCHANGED <<clients, donut, otherBuckets, storedBuckets, heap,
                   cacheObjects, lockR, lockW, donutBuckets>>
    /\ UNCHANGED <<sweeperVars, ledgerVars>>

\* The metadata record goes into the map the storedBucket copy refers to,
\* and the copy goes back into cache.storedBuckets.
StoreMetadata(p, meta) ==
    /\ heap' = [heap EXCEPT ![loc[p].sb.objectMetadata] =
                   MapPut(@, ObjectKey(loc[p].bucket, loc[p].key), meta)]
    /\ storedBuckets' = MapPut(storedBuckets, loc[p].bucket, loc[p].sb)

\* lines 364-368: the backend's metadata is recorded under the write lock.
CreateObjectDonutStore(p) ==
    /\ cpc[p] = "coDonutStore"
    /\ CanLock
    /\ StoreMetadata(p, loc[p].meta)
    /\ Finish(p, [CreateObjectRet(p) EXCEPT !.meta = loc[p].meta])
    /\ UNCHANGED <<clients, donut, otherBuckets, cacheObjects, lockR, lockW,
                   donutBuckets, donutObjects>>
    /\ UNCHANGED <<sweeperVars, ledgerVars>>

\* lines 375-396: one turn of the read loop.  The reader hands over some of
\* the bytes left, which are hashed and appended to the cache entry under
\* the write lock; or it is at its end; or it fails.
CreateObjectRead(p) ==
    /\ cpc[p] = "coRead"
    /\ \/ /\ loc[p].rest # <<>>
          /\ CanLock
          /\ \E length \in 1..Min(Len(loc[p].rest), chunkSize) :
             \E a \in TroveAppend(cacheObjects,
                                  ObjectKey(loc[p].bucket, loc[p].key),
                                  Take(loc[p].rest, length)) :
               IF ~a.ok
               THEN /\ Finish(p, [CreateObjectRet(p) EXCEPT !.err = "InternalError"])
                    /\ UNCHANGED <<cacheObjects, heap>>
               ELSE /\ cacheObjects' = a.items
                    /\ heap' = ExpireAll(heap, a.evicted)
                    /\ loc' = [loc EXCEPT
                                 ![p].read = @ \o Take(loc[p].rest, length),
                                 ![p].rest = Drop(@, length)]
                    /\ UNCHANGED <<cpc, ret>>
       \/ /\ loc[p].rest = <<>>
          /\ cpc' = [cpc EXCEPT ![p] = "coFinish"]
          /\ UNCHANGED <<cacheObjects, heap, loc, ret>>
       \/ /\ Finish(p, [CreateObjectRet(p) EXCEPT !.err = "ReadError"])
          /\ UNCHANGED <<cacheObjects, heap>>
    /\ UNCHANGED <<clients, donut, otherBuckets, storedBuckets, lockR, lockW,
                   donutBuckets, donutObjects>>
    /\ UNCHANGED <<sweeperVars, ledgerVars>>

\* createObject as it would be without the digest verification of lines
\* 401-405.
CreateObjectFinishUnverified(p) ==
    /\ cpc[p] = "coFinish"
    /\ CanLock
    /\ LET newObject == [Size |-> Len(loc[p].read),
                         MD5Sum |-> HexEncode(Md5Sum(loc[p].read))]
       IN /\ StoreMetadata(p, newObject)
          /\ Finish(p, [CreateObjectRet(p) EXCEPT !.meta = newObject])
    /\ UNCHANGED <<clients, donut, otherBuckets, cacheObjects, lockR, lockW,
                   donutBuckets, donutObjects>>
    /\ UNCHANGED <<sweeperVars, ledgerVars>>

\* lines 398-423: the digest is verified when one was given, then the
\* metadata is recorded under the write lock.
CreateObjectFinish(p) ==
    /\ cpc[p] = "coFinish"
    /\ LET md5Sum == HexEncode(Md5Sum(loc[p].read))
           newObject == [Size |-> Len(loc[p].read), MD5Sum |-> md5Sum]
       IN IF /\ loc[p].expected.enc # "none"
             /\ isMD5SumEqual(loc[p].expected, md5Sum) # "ok"
          THEN /\ Finish(p, [CreateObjectRet(p) EXCEPT !.err = "BadDigest"])
               /\ UNCHANGED <<heap, storedBuckets>>
          ELSE /\ CanLock
               /\ StoreMetadata(p, newObject)
               /\ Finish(p, [CreateObjectRet(p) EXCEPT !.meta = newObject])
    /\ UNCHANGED <<clients, donut, otherBuckets, cacheObjects, lockR, lockW,
                   donutBuckets, donutObjects>>
    /\ UNCHANGED <<sweeperVars, ledgerVars>>

(***************************************************************************)
(* Cache.GetObject, lines 107-160.                                         *)
(***************************************************************************)
\* GetObject as it would be if it looked for the bucket before it validated
\* the names.
GetObjectOutcomeExistenceFirst(bucket, object) ==
    IF bucket \notin DOMAIN storedBuckets
    THEN [err |-> "BucketNotFound", n |-> 0, out |-> <<>>]
    ELSE IF ~IsValidObjectName(object)
    THEN [err |-> "ObjectNameInvalid", n |-> 0, out |-> <<>>]
    ELSE IF ObjectKey(bucket, object) \in DOMAIN cacheObjects
    THEN [err |-> "nil", n |-> Len(cacheObjects[ObjectKey(bucket, object)]),
          out |-> cacheObjects[ObjectKey(bucket, object)]]
    ELSE IF donut /\ ObjectKey(bucket, object) \in DOMAIN donutObjects
    THEN [err |-> "nil", n |-> Len(donutObjects[ObjectKey(bucket, object)]),
          out |-> donutObjects[ObjectKey(bucket, object)]]
    ELSE [err |-> "ObjectNotFound", n |-> 0, out |-> <<>>]

\* What GetObject(w, bucket, object) returns and writes to a writer that
\* accepts everything, when it finds the entry in the byte cache or has no
\* backend to ask; with a backend and no entry, the backend is read.
GetObjectOutcome(bucket, object) ==
    LET objectKey == ObjectKey(bucket, object)
    IN IF ~IsValidBucket(bucket) THEN [err |-> "BucketNameInvalid", n |-> 0, out |-> <<>>]
       ELSE IF ~IsValidObjectName(object)
       THEN [err |-> "ObjectNameInvalid", n |-> 0, out |-> <<>>]
       ELSE IF bucket \notin DOMAIN storedBuckets
       THEN [err |-> "BucketNotFound", n |-> 0, out |-> <<>>]
       ELSE IF objectKey \in DOMAIN cacheObjects
       THEN [err |-> "nil", n |-> Len(cacheObjects[objectKey]),
             out |-> cacheObjects[objectKey]]
       ELSE IF donut
       THEN IF objectKey \in DOMAIN donutObjects
            THEN [err |-> "nil", n |-> Len(donutObjects[objectKey]),
                  out |-> donutObjects[objectKey]]
            ELSE [err |-> "ObjectNotFound", n |-> 0, out |-> <<>>]
       ELSE [err |-> "ObjectNotFound", n |-> 0, out |-> <<>>]

\* lines 108-137 and 151-159: under the read lock.  A hit is copied to the
\* writer; a miss with a backend is copied from the backend through the
\* proxy writer and is cached in the next step.  The return of line 156, a
\* failed copy of a hit, leaves the read lock held.
GetObjectRead(p) ==
    /\ cpc[p] = "idle" /\ p \in clients
    /\ CanRLock
    /\ \E bucket \in BucketArgs : \E object \in ObjectArgs :
         LET objectKey == ObjectKey(bucket, object)
             o == GetObjectOutcome(bucket, object)
             r == [NoRet EXCEPT !.op = "GetObject", !.bucket = bucket,
                                !.key = object,
                                !.existed = objectKey \in DOMAIN cacheObjects]
             hit == IsValidBucket(bucket) /\ IsValidObjectName(object)
                    /\ bucket \in DOMAIN storedBuckets
                    /\ objectKey \in DOMAIN cacheObjects
             asked == IsValidBucket(bucket) /\ IsValidObjectName(object)
                      /\ bucket \in DOMAIN storedBuckets
                      /\ objectKey \notin DOMAIN cacheObjects /\ donut
             calls == IF asked THEN <<"RLock", "donut.GetObject", "RUnlock">>
                      ELSE <<"RLock", "RUnlock">>
         IN \/ /\ o.err # "nil" \/ hit
               /\ Finish(p, [r EXCEPT !.err = o.err, !.n = o.n, !.out = o.out,
                                      !.calls = calls])
               /\ lockR' = lockR
            \/ /\ hit
               /\ lockR < MaxLeaks
               /\ Finish(p, [r EXCEPT !.err = "WriteError",
                                      !.calls = <<"RLock">>])
               /\ lockR' = lockR + 1
            \/ /\ o.err = "nil" /\ ~hit
               /\ cpc' = [cpc EXCEPT ![p] = "goSet"]
               /\ loc' = [loc EXCEPT ![p] =
                            [NoLoc EXCEPT !.op = "GetObject", !.bucket = bucket,
                                          !.key = object, !.out = o.out,
                                          !.read = o.out, !.calls = calls]]
               /\ UNCHANGED <<ret, lockR>>
    /\ UNCHANGED <<clients, donut, otherBuckets, storedBuckets, heap,
                   cacheObjects, lockW, donutBuckets, donutObjects>>
    /\ UNCHANGED <<sweeperVars, ledgerVars>>

\* lines 138-149 and 205-216: what the proxy writer captured (loc.read)
\* becomes the cache entry, under the write lock.
SetFromBackend(p) ==
    /\ cpc[p] \in {"goSet", "gpSet"}
    /\ CanLock
    /\ \E a \in TroveSet(cacheObjects, ObjectKey(loc[p].bucket, loc[p].key),
                         loc[p].read) :
         LET r == [NoRet EXCEPT !.op = loc[p].op, !.bucket = loc[p].bucket,
                                !.key = loc[p].key, !.start = loc[p].start,
                                !.length = loc[p].length, !.out = loc[p].out,
                                !.calls = loc[p].calls \o <<"Lock", "Unlock">>]
         IN IF ~a.ok
            THEN /\ Finish(p, [r EXCEPT !.err = "InternalError"])
                 /\ UNCHANGED <<cacheObjects, heap>>
            ELSE /\ cacheObjects' = a.items
                 /\ heap' = ExpireAll(heap, a.evicted)
                 /\ Finish(p, [r EXCEPT !.n = Len(loc[p].out)])
    /\ UNCHANGED <<clients, donut, otherBuckets, storedBuckets, lockR, lockW,
                   donutBuckets, donutObjects>>
    /\ UNCHANGED <<sweeperVars, ledgerVars>>

(***************************************************************************)
(* Cache.GetPartialObject, lines 163-227.                                  *)
(***************************************************************************)
StartArgs == -1..(maxSize + 1)
LengthArgs == 0..(maxSize + 1)

\* io.CopyN as it would be if it ignored length and copied all of src.
CopyNWhole(src, length) == [err |-> "nil", n |-> Len(src), out |-> src]

\* io.CopyN(w, src, length): length bytes of src are written, or all of a
\* shorter src and the error is io.EOF.
CopyN(src, length) ==
    IF length <= Len(src)
    THEN [err |-> "nil", n |-> length, out |-> Take(src, length)]
    ELSE [err |-> "EOF", n |-> Len(src), out |-> src]

\* lines 170-204 and 218-226: under the read lock.  A hit copies
\* data[start:] for length bytes: the slice panics when start is beyond the
\* data, and the return of line 223, a failed copy, leaves the read lock
\* held.  A miss with a backend skips start bytes and copies length bytes
\* to the writer itself, so the proxy writer captures nothing.
GetPartialObjectRead(p) ==
    /\ cpc[p] = "idle" /\ p \in clients
    /\ CanRLock
    /\ \E bucket \in BucketArgs : \E object \in ObjectArgs :
       \E start \in StartArgs : \E length \in LengthArgs :
         LET objectKey == ObjectKey(bucket, object)
             r == [NoRet EXCEPT !.op = "GetPartialObject", !.bucket = bucket,
                                !.key = object, !.start = start,
                                !.length = length,
                                !.existed = objectKey \in DOMAIN cacheObjects,
                                !.data = IF objectKey \in DOMAIN cacheObjects
                                         THEN cacheObjects[objectKey] ELSE <<>>,
                                !.calls = <<"RLock", "RUnlock">>]
             asked == <<"RLock", "donut.GetObject", "RUnlock">>
         IN IF ~IsValidBucket(bucket)
            THEN Finish(p, [r EXCEPT !.err = "BucketNameInvalid"]) /\ lockR' = lockR
            ELSE IF ~IsValidObjectName(object)
            THEN Finish(p, [r EXCEPT !.err = "ObjectNameInvalid"]) /\ lockR' = lockR
            ELSE IF start < 0
            THEN Finish(p, [r EXCEPT !.err = "InvalidRange"]) /\ lockR' = lockR
            ELSE IF objectKey \in DOMAIN cacheObjects
            THEN LET data == cacheObjects[objectKey]
                 IN IF start > Len(data)
                    THEN /\ lockR < MaxLeaks
                         /\ Finish(p, [r EXCEPT !.err = "panic",
                                                !.calls = <<"RLock">>])
                         /\ lockR' = lockR + 1
                    ELSE LET c == CopyN(Drop(data, start), length)
                         IN IF c.err # "nil"
                            THEN /\ lockR < MaxLeaks
                                 /\ Finish(p, [r EXCEPT !.err = c.err, !.out = c.out,
                                                        !.calls = <<"RLock">>])
                                 /\ lockR' = lockR + 1
                            ELSE /\ Finish(p, [r EXCEPT !.n = c.n, !.out = c.out])
                                 /\ lockR' = lockR
            ELSE IF ~donut
            THEN Finish(p, [r EXCEPT !.err = "ObjectNotFound"]) /\ lockR' = lockR
            ELSE IF objectKey \notin DOMAIN donutObjects
            THEN /\ Finish(p, [r EXCEPT !.err = "ObjectNotFound", !.calls = asked])
                 /\ lockR' = lockR
            ELSE LET data == donutObjects[objectKey]
                     skip == CopyN(data, start)
                     c == CopyN(Drop(data, start), length)
                 IN /\ lockR' = lockR
                    /\ IF skip.err # "nil"
                       THEN Finish(p, [r EXCEPT !.err = skip.err, !.calls = asked])
                       ELSE IF c.err # "nil"
                       THEN Finish(p, [r EXCEPT !.err = c.err, !.out = c.out,
                                              !.calls = asked])
                       ELSE /\ cpc' = [cpc EXCEPT ![p] = "gpSet"]
                            /\ loc' = [loc EXCEPT ![p] =
                                 [NoLoc EXCEPT !.op = "GetPartialObject",
                                               !.bucket = bucket, !.key = object,
                                               !.start = start, !.length = length,
                                               !.out = c.out, !.read = <<>>,
                                               !.calls = asked]]
                            /\ ret' = ret
    /\ UNCHANGED <<clients, donut, otherBuckets, storedBuckets, heap,
                   cacheObjects, lockW, donutBuckets, donutObjects>>
    /\ UNCHANGED <<sweeperVars, ledgerVars>>

(***************************************************************************)
(* Cache.GetObjectMetadata, lines 576-611.                                 *)
(***************************************************************************)
\* What GetObjectMetadata(bucket, key) returns.
GetObjectMetadataOutcome(bucket, key) ==
    LET objectKey == ObjectKey(bucket, key)
    IN IF ~IsValidBucket(bucket) THEN [err |-> "BucketNameInvalid", meta |-> NoMeta]
       ELSE IF ~IsValidObjectName(key) THEN [err |-> "ObjectNameInvalid", meta |-> NoMeta]
       ELSE IF bucket \notin DOMAIN storedBuckets
       THEN [err |-> "BucketNotFound", meta |-> NoMeta]
       ELSE IF HasMetadata(storedBuckets[bucket], objectKey)
       THEN [err |-> "nil",
             meta |-> heap[storedBuckets[bucket].objectMetadata][objectKey]]
       ELSE IF donut /\ objectKey \in DOMAIN donutObjects
       THEN [err |-> "nil", meta |-> DonutMetadata(donutObjects[objectKey])]
       ELSE [err |-> "ObjectNotFound", meta |-> NoMeta]

\* lines 577-602 and 609-610: under the read lock; what the backend
\* returned is recorded in the next step.
GetObjectMetadataRead(p) ==
    /\ cpc[p] = "idle" /\ p \in clients
    /\ CanRLock
    /\ \E bucket \in BucketArgs : \E key \in ObjectArgs :
         LET o == GetObjectMetadataOutcome(bucket, key)
             cached == /\ bucket \in DOMAIN storedBuckets
                       /\ HasMetadata(storedBuckets[bucket], ObjectKey(bucket, key))
             r == [NoRet EXCEPT !.op = "GetObjectMetadata", !.bucket = bucket,
                                !.key = key, !.existed = cached]
         IN IF o.err # "nil" \/ cached
            THEN Finish(p, [r EXCEPT !.err = o.err, !.meta = o.meta])
            ELSE /\ cpc' = [cpc EXCEPT ![p] = "gmStore"]
                 /\ loc' = [loc EXCEPT ![p] =
                              [NoLoc EXCEPT !.op = "GetObjectMetadata",
                                            !.bucket = bucket, !.key = key,
                                            !.meta = o.meta,
                                            !.sb = storedBuckets[bucket]]]
                 /\ ret' = ret
    /\ UNCHANGED <<clients, donut, otherBuckets, storedBuckets, heap,
                   cacheObjects, lockR, lockW, donutBuckets, donutObjects>>
    /\ UNCHANGED <<sweeperVars, ledgerVars>>

\* lines 603-607: the record goes into the map of the storedBucket copy.
GetObjectMetadataStore(p) ==
    /\ cpc[p] = "gmStore"
    /\ CanLock
    /\ heap' = [heap EXCEPT ![loc[p].sb.objectMetadata] =
                   MapPut(@, ObjectKey(loc[p].bucket, loc[p].key), loc[p].meta)]
    /\ Finish(p, [NoRet EXCEPT !.op = "GetObjectMetadata",
                               !.bucket = loc[p].bucket, !.key = loc[p].key,
                               !.meta = loc[p].meta])
    /\ UNCHANGED <<clients, donut, otherBuckets, storedBuckets, cacheObjects,
                   lockR, lockW, donutBuckets, donutObjects>>
    /\ UNCHANGED <<sweeperVars, ledgerVars>>

(***************************************************************************)
(* Cache.GetBucketMetadata, lines 230-255, and Cache.SetBucketMetadata,    *)
(* lines 258-285.  lockR counts the read locks held; a thread is between   *)
(* two steps of GetBucketMetadata with the read lock held when it found    *)
(* the bucket (loc.existed).                                               *)
(***************************************************************************)
\* the ACL the backend reports for a bucket it holds
DonutBucketACL == "private"

\* lines 231-247: under the read lock.  A bucket the cache holds leaves the
\* lock held for line 253; a bucket only the backend holds has the lock
\* released at line 247, with storedBucket the zero value.
GetBucketMetadataCheck(p) ==
    /\ cpc[p] = "idle" /\ p \in clients
    /\ CanRLock
    /\ \E bucket \in BucketArgs :
         LET r == [NoRet EXCEPT !.op = "GetBucketMetadata", !.bucket = bucket,
                                !.existed = bucket \in DOMAIN storedBuckets]
             l == [NoLoc EXCEPT !.op = "GetBucketMetadata", !.bucket = bucket,
                                !.existed = bucket \in DOMAIN storedBuckets]
         IN IF ~IsValidBucket(bucket)
            THEN Finish(p, [r EXCEPT !.err = "BucketNameInvalid"])
                 /\ lockR' = lockR
            ELSE IF bucket \in DOMAIN storedBuckets
            THEN /\ cpc' = [cpc EXCEPT ![p] = "gbmRUnlock"]
                 /\ loc' = [loc EXCEPT ![p] = l]
                 /\ ret' = ret
                 /\ lockR' = lockR + 1
            ELSE IF ~donut \/ bucket \notin donutBuckets
            THEN Finish(p, [r EXCEPT !.err = "BucketNotFound"])
                 /\ lockR' = lockR
            ELSE /\ cpc' = [cpc EXCEPT ![p] = "gbmStore"]
                 /\ loc' = [loc EXCEPT ![p] = [l EXCEPT !.acl = DonutBucketACL]]
                 /\ ret' = ret
                 /\ lockR' = lockR
    /\ UNCHANGED <<clients, donut, otherBuckets, storedBuckets, heap,
                   cacheObjects, lockW, donutBuckets, donutObjects>>
    /\ UNCHANGED <<sweeperVars, ledgerVars>>

\* lines 248-251: under the write lock the zero storedBucket, with the
\* metadata of the backend and no objectMetadata map, goes into the map.
GetBucketMetadataStore(p) ==
    /\ cpc[p] = "gbmStore"
    /\ CanLock
    /\ storedBuckets' = MapPut(storedBuckets, loc[p].bucket,
                               [ACL |-> loc[p].acl, objectMetadata |-> 0])
    /\ cpc' = [cpc EXCEPT ![p] = "gbmRUnlock"]
    /\ UNCHANGED <<clients, donut, otherBuckets, heap, cacheObjects, lockR,
                   lockW, donutBuckets, donutObjects, loc, ret>>
    /\ UNCHANGED <<sweeperVars, ledgerVars>>

\* line 253: cache.lock.RUnlock(), on both paths.  The thread that came
\* through lines 247-251 holds no read lock: with no reader the runtime
\* stops the process (sync: RUnlock of unlocked RWMutex), with another
\* reader it is that reader's lock that is released.
GetBucketMetadataRUnlock(p) ==
    /\ cpc[p] = "gbmRUnlock"
    /\ IF loc[p].existed \/ lockR > 0
       THEN /\ lockR' = lockR - 1
            /\ cpc' = [cpc EXCEPT ![p] = "gbmReturn"]
            /\ UNCHANGED <<loc, ret>>
       ELSE /\ Finish(p, [NoRet EXCEPT !.op = "GetBucketMetadata",
                                       !.bucket = loc[p].bucket,
                                       !.existed = loc[p].existed,
                                       !.err = "fatal"])
            /\ lockR' = lockR
    /\ UNCHANGED <<clients, donut, otherBuckets, storedBuckets, heap,
                   cacheObjects, lockW, donutBuckets, donutObjects>>
    /\ UNCHANGED <<sweeperVars, ledgerVars>>

\* line 254: cache.storedBuckets[bucket].bucketMetadata, read after the
\* lock was released.
GetBucketMetadataReturn(p) ==
    /\ cpc[p] = "gbmReturn"
    /\ Finish(p, [NoRet EXCEPT !.op = "GetBucketMetadata",
                               !.bucket = loc[p].bucket,
                               !.existed = loc[p].existed,
                               !.acl = IF loc[p].bucket \in DOMAIN storedBuckets
                                       THEN storedBuckets[loc[p].bucket].ACL
                                       ELSE ""])
    /\ UNCHANGED <<clients, donut, otherBuckets, storedBuckets, heap,
                   cacheObjects, lockR, lockW, donutBuckets, donutObjects>>
    /\ UNCHANGED <<sweeperVars, ledgerVars>>

\* lines 259-271: the checks under the read lock, the default ACL, and the
\* read lock released.
SetBucketMetadataCheck(p) ==
    /\ cpc[p] = "idle" /\ p \in clients
    /\ CanRLock
    /\ \E bucket \in BucketArgs : \E acl \in ACLArgs :
         LET r == [NoRet EXCEPT !.op = "SetBucketMetadata", !.bucket = bucket,
                                !.acl = acl,
                                !.existed = bucket \in DOMAIN storedBuckets]
         IN IF ~IsValidBucket(bucket)
            THEN Finish(p, [r EXCEPT !.err = "BucketNameInvalid"])
            ELSE IF bucket \notin DOMAIN storedBuckets
            THEN Finish(p, [r EXCEPT !.err = "BucketNotFound"])
            ELSE /\ cpc' = [cpc EXCEPT ![p] = "sbmStore"]
                 /\ loc' = [loc EXCEPT ![p] =
                              [NoLoc EXCEPT !.op = "SetBucketMetadata",
                                            !.bucket = bucket,
                                            !.existed = TRUE,
                                            !.acl = IF IsBlank(acl) THEN "private"
                                                    ELSE acl]]
                 /\ ret' = ret
    /\ UNCHANGED <<clients, donut, otherBuckets, storedBuckets, heap,
                   cacheObjects, lockR, lockW, donutBuckets, donutObjects>>
    /\ UNCHANGED <<sweeperVars, ledgerVars>>

\* lines 272-283: under the write lock.  The call into the backend, which
\* works on disks, succeeds or returns an error; on an error line 277
\* returns with the write lock held; otherwise the ACL is stored and the
\* lock is released.
SetBucketMetadataStore(p) ==
    /\ cpc[p] = "sbmStore"
    /\ CanLock
    /\ LET r == [NoRet EXCEPT !.op = "SetBucketMetadata",
                              !.bucket = loc[p].bucket, !.acl = loc[p].acl,
                              !.existed = TRUE]
       IN \E backendErr \in IF donut THEN {"nil", "BackendError"} ELSE {"nil"} :
          IF backendErr # "nil"
          THEN /\ Finish(p, [r EXCEPT !.err = backendErr])
               /\ lockW' = TRUE
               /\ storedBuckets' = storedBuckets
          ELSE /\ storedBuckets' =
                     [storedBuckets EXCEPT ![loc[p].bucket].ACL = loc[p].acl]
               /\ Finish(p, r)
               /\ lockW' = lockW
    /\ UNCHANGED <<clients, donut, otherBuckets, heap, cacheObjects, lockR,
                   donutBuckets, donutObjects>>
    /\ UNCHANGED <<sweeperVars, ledgerVars>>

(***************************************************************************)
(* Cache.ListObjects, lines 471-554, of a cache without a backend.  The    *)
(* helpers on lists of strings are those of the donut package.             *)
(***************************************************************************)
MaxKeysArg == 3

obj1 == <<111, 98, 106, 49>>
obj2 == <<111, 98, 106, 50>>
obj3 == <<111, 98, 106, 51>>
a1b == <<97, 49, 98>>
a1c == <<97, 49, 99>>
blankx == <<32, 120>>

\* The keys a listed bucket may hold, and the fields of a request.
ListKeys == {obj1, obj2, obj3, a1b, a1c, blankx}
PrefixArgs == {<<>>, <<111>>, <<97>>, <<32>>}
MarkerArgs == {<<>>, obj1}
DelimiterArgs == {<<>>, <<49>>, <<32>>}
MaxkeysArgs == 0..MaxKeysArg
CommonPrefixesArgs == {<<>>, <<obj1>>}

\* strings.HasPrefix, strings.TrimSpace(s) == "", strings.Index (from 1, 0
\* when sep does not occur), strings.Contains
HasPrefix(s, prefix) ==
    Len(prefix) <= Len(s) /\ SubSeq(s, 1, Len(prefix)) = prefix
TrimSpaceIsEmpty(s) == \A i \in 1..Len(s) : s[i] = 32
Index(s, sep) ==
    LET at == {i \in 1..(Len(s) - Len(sep) + 1) :
                  SubSeq(s, i, i + Len(sep) - 1) = sep}
    IN IF at = {} THEN 0 ELSE CHOOSE i \in at : \A j \in at : i <= j
Contains(s, sep) == Index(s, sep) # 0

\* an empty prefix is valid, any other prefix is valid as an object name is
IsValidPrefix(prefix) == TrimSpaceIsEmpty(prefix) \/ IsValidObjectName(prefix)
IsDelimiterSet(resources) == resources.Delimiter # <<>>

TrimPrefix(objs, prefix) ==
    [i \in 1..Len(objs) |->
        IF HasPrefix(objs[i], prefix) THEN Drop(objs[i], Len(prefix))
        ELSE objs[i]]
HasNoDelimiter(objs, delim) ==
    SelectSeq(objs, LAMBDA o : ~Contains(o, delim))
HasDelimiter(objs, delim) ==
    SelectSeq(objs, LAMBDA o : Contains(o, delim))
\* SplitDelimiter as it would be if it kept only strings.Split(object,
\* delim)[0], without the delimiter.
SplitDelimiterBare(objs, delim) ==
    [i \in 1..Len(objs) |-> Take(objs[i], Index(objs[i], delim) - 1)]

\* strings.Split(object, delim)[0] + delim
SplitDelimiter(objs, delim) ==
    [i \in 1..Len(objs) |->
        Take(objs[i], Index(objs[i], delim) - 1) \o delim]
RECURSIVE RemoveDuplicates(_)
RemoveDuplicates(slice) ==
    IF slice = <<>> THEN <<>>
    ELSE LET init == RemoveDuplicates(SubSeq(slice, 1, Len(slice) - 1))
             last == slice[Len(slice)]
         IN IF \E i \in 1..Len(init) : init[i] = last THEN init
            ELSE Append(init, last)
\* sort.Strings
RECURSIVE SortStrings(_)
SortStrings(slice) ==
    IF slice = <<>> THEN <<>>
    ELSE LET x == Head(slice)
             rest == SortStrings(Tail(slice))
         IN SelectSeq(rest, LAMBDA y : LexLess(y, x)) \o <<x>>
            \o SelectSeq(rest, LAMBDA y : ~LexLess(y, x))
SortU(objs) == SortNames({objs[i] : i \in 1..Len(objs)})

\* storedBucket.objectMetadata[objectKey] as ListObjects returns it: the
\* metadata with the name of the object, the zero value for a missing key
ListedObject(objectMetadata, bucket, objectKey) ==
    IF objectKey \in DOMAIN objectMetadata
    THEN [Object |-> Drop(objectKey, Len(bucket) + 1),
          Size |-> objectMetadata[objectKey].Size]
    ELSE [Object |-> <<>>, Size |-> 0]

\* lines 511-520: the keys of the bucket that start with Prefix and sort
\* after Marker, without the name of the bucket
ListCandidates(objectMetadata, bucket, resources) ==
    SelectSeq(
        [i \in 1..Cardinality(DOMAIN objectMetadata) |->
            LET key == SeqOfSet(DOMAIN objectMetadata)[i]
            IN IF HasPrefix(key, bucket \o slash)
               THEN Drop(key, Len(bucket) + 1) ELSE <<>>],
        LAMBDA key : /\ key # <<>>
                     /\ HasPrefix(key, resources.Prefix)
                     /\ LexLess(resources.Marker, key))

ListPanic == [err |-> "panic", list |-> <<>>, resources |-> NoResources]

\* lines 540-553
RECURSIVE ListLoop(_, _, _, _, _)
ListLoop(filteredKeys, results, objectMetadata, bucket, resources) ==
    IF filteredKeys = <<>>
    THEN [err |-> "nil", list |-> results,
          resources |-> [resources EXCEPT
              !.CommonPrefixes = SortStrings(RemoveDuplicates(@))]]
    ELSE IF Len(results) = resources.Maxkeys
    THEN IF IsDelimiterSet(resources)
         THEN IF results = <<>> THEN ListPanic
              ELSE [err |-> "nil", list |-> results,
                    resources |-> [resources EXCEPT
                        !.IsTruncated = TRUE,
                        !.NextMarker = results[Len(results)].Object]]
         ELSE [err |-> "nil", list |-> results,
               resources |-> [resources EXCEPT !.IsTruncated = TRUE]]
    ELSE ListLoop(Tail(filteredKeys),
                  Append(results,
                         ListedObject(objectMetadata, bucket,
                             bucket \o slash \o resources.Prefix
                                    \o Head(filteredKeys))),
                  objectMetadata, bucket, resources)

ListObjectsOutcome(bucket, resources) ==
    IF ~IsValidBucket(bucket)
    THEN [err |-> "BucketNameInvalid", list |-> <<>>, resources |-> NoResources]
    ELSE IF ~IsValidPrefix(resources.Prefix)
    THEN [err |-> "ObjectNameInvalid", list |-> <<>>, resources |-> NoResources]
    ELSE IF bucket \notin DOMAIN storedBuckets
    THEN [err |-> "BucketNotFound", list |-> <<>>, resources |-> NoResources]
    ELSE
    LET objectMetadata == heap[storedBuckets[bucket].objectMetadata]
        candidates == ListCandidates(objectMetadata, bucket, resources)
        keys == IF ~TrimSpaceIsEmpty(resources.Prefix)
                THEN TrimPrefix(candidates, resources.Prefix)
                ELSE candidates
        folds == ~TrimSpaceIsEmpty(resources.Delimiter)
        filteredKeys == IF folds THEN HasNoDelimiter(keys, resources.Delimiter)
                        ELSE keys
        prefixes == IF folds
                    THEN SortU(SplitDelimiter(
                             HasDelimiter(keys, resources.Delimiter),
                             resources.Delimiter))
                    ELSE <<>>
        withPrefixes ==
            [resources EXCEPT !.CommonPrefixes =
                @ \o [i \in 1..Len(prefixes) |-> resources.Prefix \o prefixes[i]]]
    IN ListLoop(SortStrings(RemoveDuplicates(filteredKeys)), <<>>,
                objectMetadata, bucket, withPrefixes)

ListObjects471(p) ==
    /\ cpc[p] = "idle" /\ p \in clients
    /\ ~donut
    /\ CanRLock
    /\ \E bucket \in BucketArgs, prefix \in PrefixArgs, marker \in MarkerArgs,
          delimiter \in DelimiterArgs, maxkeys \in MaxkeysArgs,
          common \in CommonPrefixesArgs :
          LET resources == [NoResources EXCEPT
                               !.Prefix = prefix, !.Marker = marker,
                               !.Delimiter = delimiter, !.Maxkeys = maxkeys,
                               !.CommonPrefixes = common]
              r == ListObjectsOutcome(bucket, resources)
          IN Finish(p, [NoRet EXCEPT !.op = "ListObjects", !.bucket = bucket,
                                     !.request = resources, !.err = r.err,
                                     !.list = r.list,
                                     !.resources = r.resources])
    /\ UNCHANGED <<clients, donut, otherBuckets, storedBuckets, heap,
                   cacheObjects, lockR, lockW, donutBuckets, donutObjects>>
    /\ UNCHANGED <<sweeperVars, ledgerVars>>

(***************************************************************************)
(* The ledger, gateway-s3x-ledger.go.  BucketExists is outside this file:  *)
(* it is taken to answer whether ls.l.Buckets holds the name, in one step, *)
(* and to leave the lock as it found it.                                   *)
(***************************************************************************)
MaxParts == 2

LedgerBuckets == {"bkt1", "bkt2"}
\* upload ids; one of them reads like the name of a bucket
UploadIDs == {"id1", "bkt1"}
LedgerObjects == {"k1", "k2"}
Hashes == {"h1", "h2"}
\* the part number and the hash of a part
PartArgs == {[Number |-> 1, DataHash |-> "h1"], [Number |-> 2, DataHash |-> "h2"]}

NoLedgerLoc == [op |-> "none", bucket |-> "", object |-> "", id |-> "",
                hash |-> "", part |-> [Number |-> 0, DataHash |-> ""]]
NoLedgerRet == [op |-> "none", bucket |-> "", object |-> "", id |-> "",
                hash |-> "", part |-> [Number |-> 0, DataHash |-> ""],
                err |-> "nil", parts |-> <<>>, hashes |-> <<>>]

\* a nil map, and make(map[string]*MultipartUpload)
NilUploads == [isNil |-> TRUE, items |-> EmptyMap]
MakeUploads == [isNil |-> FALSE, items |-> EmptyMap]

BucketExists(name) == name \in DOMAIN Buckets

\* lines 287-295.  The map holds pointers: for an id it does not hold,
\* m.MultipartUploads[id] is nil and reading its Id is a nil dereference.
multipartExists(id) ==
    IF MultipartUploads.isNil THEN "ErrInvalidUploadID"
    ELSE IF id \notin DOMAIN MultipartUploads.items THEN "panic"
    ELSE IF MultipartUploads.items[id].Id = "" THEN "ErrInvalidUploadID"
    ELSE "nil"

\* lines 297-301
deleteMultipartID(bucketName, multipartID) ==
    [MultipartUploads EXCEPT !.items = MapDel(@, multipartID)]

\* The call starts: thread p is idle and the process runs.
LedgerCall(p) == p \in ledgerClients /\ lpc[p] = "idle" /\ ~ledgerFatal

LedgerGoto(p, pc, l) ==
    /\ lpc' = [lpc EXCEPT ![p] = pc]
    /\ lloc' = [lloc EXCEPT ![p] = l]
    /\ lret' = lret

LedgerFinish(p, r) ==
    /\ lpc' = [lpc EXCEPT ![p] = "done"]
    /\ lret' = [lret EXCEPT ![p] = r]
    /\ lloc' = [lloc EXCEPT ![p] = NoLedgerLoc]

\* the result of the operation thread p is in
LedgerRet(p) ==
    [NoLedgerRet EXCEPT !.op = lloc[p].op, !.bucket = lloc[p].bucket,
                        !.object = lloc[p].object, !.id = lloc[p].id,
                        !.hash = lloc[p].hash, !.part = lloc[p].part]

\* The caller takes the result.
LedgerReturn(p) ==
    /\ lpc[p] = "done" /\ ~ledgerFatal
    /\ lpc' = [lpc EXCEPT ![p] = "idle"]
    /\ lret' = [lret EXCEPT ![p] = NoLedgerRet]
    /\ UNCHANGED <<ledgerClients, ledgerLock, Buckets, MultipartUploads,
                   dsOpen, ledgerFatal, lloc>>
    /\ UNCHANGED <<sweeperVars, cacheVars>>

\* The first lines of an entry point with a bucket: BucketExists, and the
\* return when the bucket is not there.
LedgerBucketCheck(p, l, pc) ==
    /\ IF BucketExists(l.bucket)
       THEN LedgerGoto(p, pc, l)
       ELSE /\ lpc' = [lpc EXCEPT ![p] = "done"]
            /\ lloc' = lloc
            /\ lret' = [lret EXCEPT ![p] =
                  [NoLedgerRet EXCEPT
                      !.op = l.op, !.bucket = l.bucket, !.object = l.object,
                      !.id = l.id, !.hash = l.hash, !.part = l.part,
                      !.err = "ErrLedgerBucketDoesNotExist"]]
    /\ UNCHANGED <<ledgerClients, ledgerLock, Buckets, MultipartUploads,
                   dsOpen, ledgerFatal>>
    /\ UNCHANGED <<sweeperVars, cacheVars>>

\* A step that runs multipartExists and returns its error, or goes on.
LedgerExistsStep(p, pc) ==
    /\ IF multipartExists(lloc[p].id) = "nil"
       THEN LedgerGoto(p, pc, lloc[p])
       ELSE LedgerFinish(p, [LedgerRet(p) EXCEPT
                                !.err = multipartExists(lloc[p].id)])
    /\ UNCHANGED <<ledgerClients, ledgerLock, Buckets, MultipartUploads,
                   dsOpen, ledgerFatal>>
    /\ UNCHANGED <<sweeperVars, cacheVars>>

\* AbortMultipartUpload, lines 24-36
AbortMultipartUpload24(p) ==
    /\ LedgerCall(p)
    /\ \E bucket \in LedgerBuckets, multipartID \in UploadIDs :
          LedgerBucketCheck(p, [NoLedgerLoc EXCEPT
                                   !.op = "AbortMultipartUpload",
                                   !.bucket = bucket, !.id = multipartID],
                            "abortExists")

AbortMultipartUploadExists(p) ==
    /\ lpc[p] = "abortExists" /\ ~ledgerFatal
    /\ LedgerExistsStep(p, "abortDelete")

AbortMultipartUploadDelete(p) ==
    /\ lpc[p] = "abortDelete" /\ ~ledgerFatal
    /\ MultipartUploads' = deleteMultipartID(lloc[p].bucket, lloc[p].id)
    /\ LedgerFinish(p, LedgerRet(p))
    /\ UNCHANGED <<ledgerClients, ledgerLock, Buckets, dsOpen, ledgerFatal>>
    /\ UNCHANGED <<sweeperVars, cacheVars>>

\* NewMultipartUpload, lines 39-56
NewMultipartUpload39(p) ==
    /\ LedgerCall(p)
    /\ \E bucketName \in LedgerBuckets, objectName \in LedgerObjects,
          multipartID \in UploadIDs :
          LedgerBucketCheck(p, [NoLedgerLoc EXCEPT
                                   !.op = "NewMultipartUpload",
                                   !.bucket = bucketName,
                                   !.object = objectName,
                                   !.id = multipartID],
                            "newUploadStore")

\* NewMultipartUpload as it would be if it kept a session the id names.
NewMultipartUploadStoreKeep(p) ==
    /\ lpc[p] = "newUploadStore" /\ ~ledgerFatal
    /\ MultipartUploads' =
          IF lloc[p].id \in DOMAIN MultipartUploads.items
          THEN MultipartUploads
          ELSE [isNil |-> FALSE,
                items |-> MapPut(MultipartUploads.items, lloc[p].id,
                                 [Bucket |-> lloc[p].bucket,
                                  Object |-> lloc[p].object,
                                  Id |-> lloc[p].id,
                                  ObjectParts |-> <<>>])]
    /\ LedgerFinish(p, LedgerRet(p))
    /\ UNCHANGED <<ledgerClients, ledgerLock, Buckets, dsOpen, ledgerFatal>>
    /\ UNCHANGED <<sweeperVars, cacheVars>>

\* lines 47-55: the map is made when it is nil, and the session is stored
\* under the id, over whatever the map held there.
NewMultipartUploadStore(p) ==
    /\ lpc[p] = "newUploadStore" /\ ~ledgerFatal
    /\ MultipartUploads' =
          [isNil |-> FALSE,
           items |-> MapPut(MultipartUploads.items, lloc[p].id,
                            [Bucket |-> lloc[p].bucket,
                             Object |-> lloc[p].object,
                             Id |-> lloc[p].id,
                             ObjectParts |-> <<>>])]
    /\ LedgerFinish(p, LedgerRet(p))
    /\ UNCHANGED <<ledgerClients, ledgerLock, Buckets, dsOpen, ledgerFatal>>
    /\ UNCHANGED <<sweeperVars, cacheVars>>

\* the number of parts the sessions under ids hold together
RECURSIVE PartsHeld(_)
PartsHeld(ids) ==
    IF ids = {} THEN 0
    ELSE LET id == CHOOSE i \in ids : TRUE
         IN Len(MultipartUploads.items[id].ObjectParts) + PartsHeld(ids \ {id})

\* PutObjectPart, lines 59-77.  The model stops adding parts when the
\* sessions hold MaxParts of them together.
PutObjectPart59(p) ==
    /\ LedgerCall(p)
    /\ \E bucketName \in LedgerBuckets, objectName \in LedgerObjects,
          part \in PartArgs, multipartID \in UploadIDs :
          /\ PartsHeld(DOMAIN MultipartUploads.items) < MaxParts
          /\ LedgerBucketCheck(p, [NoLedgerLoc EXCEPT
                                      !.op = "PutObjectPart",
                                      !.bucket = bucketName,
                                      !.object = objectName,
                                      !.id = multipartID, !.part = part],
                               "putExists")

PutObjectPartExists(p) ==
    /\ lpc[p] = "putExists" /\ ~ledgerFatal
    /\ LedgerExistsStep(p, "putAppend")

\* lines 70-75: mpart is the pointer the map holds, nil when the id is gone;
\* the part is appended through it and the same pointer is stored again.
PutObjectPartAppend(p) ==
    /\ lpc[p] = "putAppend" /\ ~ledgerFatal
    /\ IF lloc[p].id \notin DOMAIN MultipartUploads.items
       THEN /\ LedgerFinish(p, [LedgerRet(p) EXCEPT !.err = "panic"])
            /\ UNCHANGED MultipartUploads
       ELSE /\ MultipartUploads' =
                  [MultipartUploads EXCEPT
                      !.items[lloc[p].id].ObjectParts = Append(@, lloc[p].part)]
            /\ LedgerFinish(p, LedgerRet(p))
    /\ UNCHANGED <<ledgerClients, ledgerLock, Buckets, dsOpen, ledgerFatal>>
    /\ UNCHANGED <<sweeperVars, cacheVars>>

\* NewBucket, lines 80-92
NewBucket80(p) ==
    /\ LedgerCall(p)
    /\ \E name \in LedgerBuckets, hash \in Hashes :
          LET l == [NoLedgerLoc EXCEPT !.op = "NewBucket", !.bucket = name,
                                       !.hash = hash]
          IN IF BucketExists(name)
             THEN /\ lpc' = [lpc EXCEPT ![p] = "done"]
                  /\ lloc' = lloc
                  /\ lret' = [lret EXCEPT ![p] =
                        [NoLedgerRet EXCEPT !.op = l.op, !.bucket = name,
                                            !.hash = hash,
                                            !.err = "ErrLedgerBucketExists"]]
             ELSE LedgerGoto(p, "newBucketStore", l)
    /\ UNCHANGED <<ledgerClients, ledgerLock, Buckets, MultipartUploads,
                   dsOpen, ledgerFatal>>
    /\ UNCHANGED <<sweeperVars, cacheVars>>

\* NewBucket as it would be if it stored an entry without the hash.
NewBucketStoreNoHash(p) ==
    /\ lpc[p] = "newBucketStore" /\ ~ledgerFatal
    /\ Buckets' = MapPut(Buckets, lloc[p].bucket,
                         [IpfsHash |-> "", Objects |-> EmptyMap])
    /\ LedgerFinish(p, LedgerRet(p))
    /\ UNCHANGED <<ledgerClients, ledgerLock, MultipartUploads, dsOpen,
                   ledgerFatal>>
    /\ UNCHANGED <<sweeperVars, cacheVars>>

\* lines 88-91: the entry has the hash and no object
NewBucketStore(p) ==
    /\ lpc[p] = "newBucketStore" /\ ~ledgerFatal
    /\ Buckets' = MapPut(Buckets, lloc[p].bucket,
                         [IpfsHash |-> lloc[p].hash, Objects |-> EmptyMap])
    /\ LedgerFinish(p, LedgerRet(p))
    /\ UNCHANGED <<ledgerClients, ledgerLock, MultipartUploads, dsOpen,
                   ledgerFatal>>
    /\ UNCHANGED <<sweeperVars, cacheVars>>

\* UpdateBucketHash, lines 96-106
UpdateBucketHash96(p) ==
    /\ LedgerCall(p)
    /\ \E name \in LedgerBuckets, hash \in Hashes :
          LedgerBucketCheck(p, [NoLedgerLoc EXCEPT
                                   !.op = "UpdateBucketHash",
                                   !.bucket = name, !.hash = hash],
                            "updateHashStore")

\* UpdateBucketHash as it would be if it stored a new entry with the hash.
UpdateBucketHashStoreNewEntry(p) ==
    /\ lpc[p] = "updateHashStore" /\ ~ledgerFatal
    /\ Buckets' = MapPut(Buckets, lloc[p].bucket,
                         [IpfsHash |-> lloc[p].hash, Objects |-> EmptyMap])
    /\ LedgerFinish(p, LedgerRet(p))
    /\ UNCHANGED <<ledgerClients, ledgerLock, MultipartUploads, dsOpen,
                   ledgerFatal>>
    /\ UNCHANGED <<sweeperVars, cacheVars>>

\* line 104: ls.l.Buckets[name].IpfsHash = hash
UpdateBucketHashStore(p) ==
    /\ lpc[p] = "updateHashStore" /\ ~ledgerFatal
    /\ Buckets' = [Buckets EXCEPT ![lloc[p].bucket].IpfsHash = lloc[p].hash]
    /\ LedgerFinish(p, LedgerRet(p))
    /\ UNCHANGED <<ledgerClients, ledgerLock, MultipartUploads, dsOpen,
                   ledgerFatal>>
    /\ UNCHANGED <<sweeperVars, cacheVars>>

\* Close, lines 135-140: le.Lock()
CloseLock(p) ==
    /\ LedgerCall(p)
    /\ ledgerLock = 0
    /\ ledgerLock' = p
    /\ LedgerGoto(p, "close", [NoLedgerLoc EXCEPT !.op = "Close"])
    /\ UNCHANGED <<ledgerClients, Buckets, MultipartUploads, dsOpen,
                   ledgerFatal>>
    /\ UNCHANGED <<sweeperVars, cacheVars>>

\* le.ds.Close(), then the deferred le.Unlock()
Close135(p) ==
    /\ lpc[p] = "close" /\ ~ledgerFatal
    /\ dsOpen' = FALSE
    /\ ledgerLock' = 0
    /\ LedgerFinish(p, LedgerRet(p))
    /\ UNCHANGED <<ledgerClients, Buckets, MultipartUploads, ledgerFatal>>
    /\ UNCHANGED <<sweeperVars, cacheVars>>

\* GetObjectParts, lines 147-152
GetObjectParts147(p) ==
    /\ LedgerCall(p)
    /\ \E id \in UploadIDs :
          LedgerGoto(p, "partsExists",
                     [NoLedgerLoc EXCEPT !.op = "GetObjectParts", !.id = id])
    /\ UNCHANGED <<ledgerClients, ledgerLock, Buckets, MultipartUploads,
                   dsOpen, ledgerFatal>>
    /\ UNCHANGED <<sweeperVars, cacheVars>>

GetObjectPartsExists(p) ==
    /\ lpc[p] = "partsExists" /\ ~ledgerFatal
    /\ LedgerExistsStep(p, "partsRead")

\* line 151: le.l.GetMultipartUploads()[id].ObjectParts
GetObjectPartsRead(p) ==
    /\ lpc[p] = "partsRead" /\ ~ledgerFatal
    /\ IF lloc[p].id \notin DOMAIN MultipartUploads.items
       THEN LedgerFinish(p, [LedgerRet(p) EXCEPT !.err = "panic"])
       ELSE LedgerFinish(p, [LedgerRet(p) EXCEPT
               !.parts = MultipartUploads.items[lloc[p].id].ObjectParts])
    /\ UNCHANGED <<ledgerClients, ledgerLock, Buckets, MultipartUploads,
                   dsOpen, ledgerFatal>>
    /\ UNCHANGED <<sweeperVars, cacheVars>>

\* MultipartIDExists, lines 155-157
MultipartIDExists155(p) ==
    /\ LedgerCall(p)
    /\ \E id \in UploadIDs :
          LedgerFinish(p, [NoLedgerRet EXCEPT !.op = "MultipartIDExists",
                                              !.id = id,
                                              !.err = multipartExists(id)])
    /\ UNCHANGED <<ledgerClients, ledgerLock, Buckets, MultipartUploads,
                   dsOpen, ledgerFatal>>
    /\ UNCHANGED <<sweeperVars, cacheVars>>

\* GetMultipartHashes, lines 222-239
GetMultipartHashes222(p) ==
    /\ LedgerCall(p)
    /\ \E bucket \in LedgerBuckets, multipartID \in UploadIDs :
          LedgerBucketCheck(p, [NoLedgerLoc EXCEPT
                                   !.op = "GetMultipartHashes",
                                   !.bucket = bucket, !.id = multipartID],
                            "hashesExists")

GetMultipartHashesExists(p) ==
    /\ lpc[p] = "hashesExists" /\ ~ledgerFatal
    /\ LedgerExistsStep(p, "hashesRead")

\* lines 233-238: the session is looked up under the name of the bucket;
\* mpart is nil when the map holds nothing under it.
GetMultipartHashesRead(p) ==
    /\ lpc[p] = "hashesRead" /\ ~ledgerFatal
    /\ IF lloc[p].bucket \notin DOMAIN MultipartUploads.items
       THEN LedgerFinish(p, [LedgerRet(p) EXCEPT !.err = "panic"])
       ELSE LET mpart == MultipartUploads.items[lloc[p].bucket]
            IN LedgerFinish(p, [LedgerRet(p) EXCEPT
                  !.hashes = [i \in 1..Len(mpart.ObjectParts) |->
                                 mpart.ObjectParts[i].DataHash]])
    /\ UNCHANGED <<ledgerClients, ledgerLock, Buckets, MultipartUploads,
                   dsOpen, ledgerFatal>>
    /\ UNCHANGED <<sweeperVars, cacheVars>>

\* The statement thread p is at reads, or writes, the map of the uploads or
\* the map of the buckets.
ReadsUploads(p) ==
    lpc[p] \in {"abortExists", "putExists", "partsExists", "partsRead",
                "hashesExists", "hashesRead"}
WritesUploads(p) == lpc[p] \in {"abortDelete", "newUploadStore", "putAppend"}
ReadsBuckets(p) == lpc[p] = "updateHashStore"
WritesBuckets(p) == lpc[p] = "newBucketStore"

\* Two threads are in the same map at once and one of them writes: the runtime
\* may detect it and stop the process (fatal error: concurrent map read and
\* map write), or the statements go on in some order.
ConcurrentMapAccess ==
    /\ ~ledgerFatal
    /\ \E p, q \in ledgerClients :
          /\ p # q
          /\ \/ WritesUploads(p) /\ (WritesUploads(q) \/ ReadsUploads(q))
             \/ WritesBuckets(p) /\ (WritesBuckets(q) \/ ReadsBuckets(q))
    /\ ledgerFatal' = TRUE
    /\ UNCHANGED <<ledgerClients, ledgerLock, Buckets, MultipartUploads,
                   dsOpen, lpc, lloc, lret>>
    /\ UNCHANGED <<sweeperVars, cacheVars>>

\* The cache as NewCache leaves it, with or without a backend; otherBuckets
\* stands for buckets made earlier under names no request of the model uses.
InitCacheWith(cs) ==
    /\ clients = cs
    /\ donut \in BOOLEAN
    /\ otherBuckets \in {0, totalBuckets - 1}
    /\ storedBuckets = EmptyMap
    /\ heap = <<>>
    /\ cacheObjects = EmptyMap
    /\ lockR = 0
    /\ lockW = FALSE
    /\ donutBuckets = {}
    /\ donutObjects = EmptyMap
    /\ cpc = [p \in AllClients |-> "idle"]
    /\ loc = [p \in AllClients |-> NoLoc]
    /\ ret = [p \in AllClients |-> NoRet]

\* The ledger of a new ledgerStore, called by the threads cs.
LedgerStart(cs) ==
    /\ ledgerClients = cs
    /\ ledgerLock = 0
    /\ Buckets = EmptyMap
    /\ MultipartUploads = NilUploads
    /\ dsOpen = TRUE
    /\ ledgerFatal = FALSE
    /\ lpc = [p \in AllClients |-> "idle"]
    /\ lloc = [p \in AllClients |-> NoLedgerLoc]
    /\ lret = [p \in AllClients |-> NoLedgerRet]

\* The sweeper as startDailyLifecycle finds it.
SweeperStartWith(objs) ==
    /\ store = objs
    /\ LastActivity = [n \in Nodes |-> 0]
    /\ spc = [n \in Nodes |-> "loop"]
    /\ recent = [n \in Nodes |-> FALSE]
    /\ sleepFor = [n \in Nodes |-> 0]
    /\ sweepLock = 0
    /\ acquired = [n \in Nodes |-> FALSE]
    /\ unlockCalls = [n \in Nodes |-> 0]
    /\ roundErr = [n \in Nodes |-> "nil"]
    /\ todo = [n \in Nodes |-> <<>>]
    /\ cur = [n \in Nodes |-> "b1"]
    /\ objInfoCh = [n \in Nodes |-> <<>>]
    /\ objects = [n \in Nodes |-> <<>>]
    /\ deleteErrs = [n \in Nodes |-> NoDeleteErrs]
    /\ events = {}

SweeperStart == SweeperStartWith(InitialStore)

\* The sweeper alone: no request reaches the cache.
InitSweeper ==
    /\ LedgerStart({})
    /\ SweeperStart
    /\ InitCacheWith({})
    /\ donut = FALSE
    /\ otherBuckets = 0

\* The cache alone, with one request thread: the sweeper has not started.
InitCache ==
    /\ LedgerStart({})
    /\ InitCacheWith({1})
    /\ SweeperStart

\* The cache with two request threads, which make buckets.
InitMakeBucketConc ==
    /\ LedgerStart({})
    /\ InitCacheWith(AllClients)
    /\ SweeperStart

NextCache ==
    \/ ExpireObject
    \/ \E p \in AllClients :
        \/ MakeBucketCheck(p)
        \/ MakeBucketDonut(p)
        \/ MakeBucketInstall(p)
        \/ ListBuckets564(p)
        \/ CreateObjectCheck(p)
        \/ CreateObjectDonut(p)
        \/ CreateObjectDonutStore(p)
        \/ CreateObjectRead(p)
        \/ CreateObjectFinish(p)
        \/ GetObjectRead(p)
        \/ GetPartialObjectRead(p)
        \/ SetFromBackend(p)
        \/ GetObjectMetadataRead(p)
        \/ GetObjectMetadataStore(p)
        \/ Return(p)

SpecCache == InitCache /\ [][NextCache]_vars

NextMakeBucket ==
    \E p \in AllClients :
        \/ MakeBucketCheck(p)
        \/ MakeBucketDonut(p)
        \/ MakeBucketInstall(p)
        \/ ListBuckets564(p)
        \/ Return(p)

SpecMakeBucketConc == InitMakeBucketConc /\ [][NextMakeBucket]_vars

\* A cache without a backend that holds the bucket foo with some objects,
\* each created with no data (CreateObject keeps the metadata of such an
\* object and caches no bytes).
InitListObjects ==
    /\ LedgerStart({})
    /\ SweeperStart
    /\ clients = {1}
    /\ donut = FALSE
    /\ otherBuckets = 0
    /\ \E held \in SUBSET ListKeys :
          heap = <<[objectKey \in {ObjectKey(foo, k) : k \in held} |->
                       DonutMetadata(<<>>)]>>
    /\ storedBuckets = MapPut(EmptyMap, foo,
                              [ACL |-> "private", objectMetadata |-> 1])
    /\ cacheObjects = EmptyMap
    /\ lockR = 0
    /\ lockW = FALSE
    /\ donutBuckets = {}
    /\ donutObjects = EmptyMap
    /\ cpc = [p \in AllClients |-> "idle"]
    /\ loc = [p \in AllClients |-> NoLoc]
    /\ ret = [p \in AllClients |-> NoRet]

NextListObjects ==
    \E p \in AllClients :
        \/ ListObjects471(p)
        \/ Return(p)

SpecListObjects == InitListObjects /\ [][NextListObjects]_vars

\* A cache without a backend that holds the empty bucket foo, with two
\* request threads that create objects.
InitCreateObjectConc ==
    /\ LedgerStart({})
    /\ SweeperStart
    /\ clients = AllClients
    /\ donut = FALSE
    /\ otherBuckets = 0
    /\ heap = <<EmptyMap>>
    /\ storedBuckets = MapPut(EmptyMap, foo,
                              [ACL |-> "private", objectMetadata |-> 1])
    /\ cacheObjects = EmptyMap
    /\ lockR = 0
    /\ lockW = FALSE
    /\ donutBuckets = {}
    /\ donutObjects = EmptyMap
    /\ cpc = [p \in AllClients |-> "idle"]
    /\ loc = [p \in AllClients |-> NoLoc]
    /\ ret = [p \in AllClients |-> NoRet]

NextCreateObjectConc ==
    \E p \in AllClients :
        \/ CreateObjectCheck(p)
        \/ CreateObjectRead(p)
        \/ CreateObjectFinish(p)
        \/ Return(p)

SpecCreateObjectConc == InitCreateObjectConc /\ [][NextCreateObjectConc]_vars

\* A cache that holds the bucket foo with the object foo/obj, with or
\* without a backend; the backend holds foo and the bucket bar, which the
\* cache has not read yet.  Two request threads read and set bucket metadata while the
\* byte cache expires entries.
InitBucketMetadata ==
    /\ LedgerStart({})
    /\ SweeperStart
    /\ clients = AllClients
    /\ donut \in BOOLEAN
    /\ otherBuckets = 0
    /\ heap = <<MapPut(EmptyMap, ObjectKey(foo, obj), DonutMetadata(<<7>>))>>
    /\ storedBuckets = MapPut(EmptyMap, foo,
                              [ACL |-> "private", objectMetadata |-> 1])
    /\ cacheObjects = MapPut(EmptyMap, ObjectKey(foo, obj), <<7>>)
    /\ lockR = 0
    /\ lockW = FALSE
    /\ donutBuckets = IF donut THEN {foo, bar} ELSE {}
    /\ donutObjects = EmptyMap
    /\ cpc = [p \in AllClients |-> "idle"]
    /\ loc = [p \in AllClients |-> NoLoc]
    /\ ret = [p \in AllClients |-> NoRet]

NextBucketMetadata ==
    \/ ExpireObject
    \/ \E p \in AllClients :
        \/ GetBucketMetadataCheck(p)
        \/ GetBucketMetadataStore(p)
        \/ GetBucketMetadataRUnlock(p)
        \/ GetBucketMetadataReturn(p)
        \/ SetBucketMetadataCheck(p)
        \/ SetBucketMetadataStore(p)
        \/ Return(p)

SpecBucketMetadata == InitBucketMetadata /\ [][NextBucketMetadata]_vars

\* A bucket entry as the ledger holds it after it was loaded from the
\* datastore: it has objects.
LoadedBuckets == MapPut(EmptyMap, "bkt2",
                        [IpfsHash |-> "h2", Objects |-> MapPut(EmptyMap, "k1", "h1")])

\* The ledger alone, with one request thread; it is new, or it was loaded
\* with one bucket.
InitLedger ==
    /\ SweeperStart
    /\ InitCacheWith({})
    /\ donut = FALSE
    /\ otherBuckets = 0
    /\ ledgerClients = {1}
    /\ ledgerLock = 0
    /\ Buckets \in {EmptyMap, LoadedBuckets}
    /\ MultipartUploads = NilUploads
    /\ dsOpen = TRUE
    /\ ledgerFatal = FALSE
    /\ lpc = [p \in AllClients |-> "idle"]
    /\ lloc = [p \in AllClients |-> NoLedgerLoc]
    /\ lret = [p \in AllClients |-> NoLedgerRet]

NextLedger ==
    \E p \in AllClients :
        \/ AbortMultipartUpload24(p)
        \/ AbortMultipartUploadExists(p)
        \/ AbortMultipartUploadDelete(p)
        \/ NewMultipartUpload39(p)
        \/ NewMultipartUploadStore(p)
        \/ PutObjectPart59(p)
        \/ PutObjectPartExists(p)
        \/ PutObjectPartAppend(p)
        \/ NewBucket80(p)
        \/ NewBucketStore(p)
        \/ UpdateBucketHash96(p)
        \/ UpdateBucketHashStore(p)
        \/ CloseLock(p)
        \/ Close135(p)
        \/ GetObjectParts147(p)
        \/ GetObjectPartsExists(p)
        \/ GetObjectPartsRead(p)
        \/ MultipartIDExists155(p)
        \/ GetMultipartHashes222(p)
        \/ GetMultipartHashesExists(p)
        \/ GetMultipartHashesRead(p)
        \/ LedgerReturn(p)

SpecLedger == InitLedger /\ [][NextLedger]_vars

\* The ledger with two request threads that start, abort and look up the
\* uploads of two tracked buckets.
InitLedgerConc ==
    /\ SweeperStart
    /\ InitCacheWith({})
    /\ donut = FALSE
    /\ otherBuckets = 0
    /\ ledgerClients = AllClients
    /\ ledgerLock = 0
    /\ Buckets = [name \in LedgerBuckets |->
                     [IpfsHash |-> "h1", Objects |-> EmptyMap]]
    /\ MultipartUploads = NilUploads
    /\ dsOpen = TRUE
    /\ ledgerFatal = FALSE
    /\ lpc = [p \in AllClients |-> "idle"]
    /\ lloc = [p \in AllClients |-> NoLedgerLoc]
    /\ lret = [p \in AllClients |-> NoLedgerRet]

NextLedgerConc ==
    \/ ConcurrentMapAccess
    \/ \E p \in AllClients :
        \/ AbortMultipartUpload24(p)
        \/ AbortMultipartUploadExists(p)
        \/ AbortMultipartUploadDelete(p)
        \/ NewMultipartUpload39(p)
        \/ NewMultipartUploadStore(p)
        \/ GetObjectParts147(p)
        \/ GetObjectPartsExists(p)
        \/ GetObjectPartsRead(p)
        \/ CloseLock(p)
        \/ Close135(p)
        \/ MultipartIDExists155(p)
        \/ LedgerReturn(p)

SpecLedgerConc == InitLedgerConc /\ [][NextLedgerConc]_vars

NextSweeper ==
    \E n \in Nodes :
         \/ LoopCheck(n)
         \/ SleepTick88(n)
         \/ GetLock(n)
         \/ GetLockWait(n)
         \/ ListBuckets(n)
         \/ BucketLoop(n)
         \/ Walk(n)
         \/ Batch(n)
         \/ DeleteObjects(n)
         \/ SendEvents(n)
         \/ DeferUnlock(n)
         \/ Switch(n)
         \/ SleepAfterRound(n)

SpecSweeper == InitSweeper /\ [][NextSweeper]_vars

\* The steps of the goroutine of node n (go startDailyLifecycle(), line 50).
startDailyLifecycle(n) ==
    \/ LoopCheck(n)
    \/ SleepTick88(n)
    \/ GetLock(n)
    \/ GetLockWait(n)
    \/ ListBuckets(n)
    \/ BucketLoop(n)
    \/ Walk(n)
    \/ Batch(n)
    \/ DeleteObjects(n)
    \/ SendEvents(n)
    \/ DeferUnlock(n)
    \/ Switch(n)
    \/ SleepAfterRound(n)

\* The sweepers over a storage layer in which each request deletes one
\* object.
InitSweeperFair ==
    /\ LedgerStart({})
    /\ SweeperStartWith([InitialStore EXCEPT !["b1"] = {"o1", "o2"}])
    /\ InitCacheWith({})
    /\ donut = FALSE
    /\ otherBuckets = 0

\* The sweepers under the scheduling of the runtime: the goroutine of each
\* node keeps running, that is, every time.Sleep ends, GetLock returns when
\* its timeout has passed at the latest, and every call into the object
\* layer returns.
SpecSweeperFair ==
    /\ InitSweeperFair
    /\ [][NextSweeper]_vars
    /\ \A n \in Nodes : WF_vars(startDailyLifecycle(n))

(***************************************************************************)
(* Properties of the sweeper.                                              *)
(***************************************************************************)
\* The sweep body: ListBuckets, Walk, the batches and DeleteObjects.
InSweepBody(n) ==
    spc[n] \in {"listBuckets", "bucketLoop", "walk", "batch", "delete", "notify"}

\* The round has returned and the loop has not yet started over.
RoundReturned(n) == spc[n] \in {"switch", "sleep97", "sleep100"}

\* C1: at most one node executes the sweep body at a time, and a node
\* executes it only while it holds the lock system/daily-lifecycle-ops.
C1_SweepMutualExclusion ==
    \A m \in Nodes :
        /\ InSweepBody(m) => sweepLock = m
        /\ \A n \in Nodes : (m # n /\ InSweepBody(m)) => ~InSweepBody(n)

\* C1 witness: one node deletes a batch while another waits for the lock.
C1_Witness ==
    \E m \in Nodes : \E n \in Nodes :
        m # n /\ spc[m] = "delete" /\ spc[n] = "lockWait" /\ sweepLock = m

\* C2: a round that acquired the lock releases it exactly once on every
\* exit path, a round that did not acquire it never calls Unlock, and
\* after the round has returned the node does not hold the lock.
C2_LockReleasedExactlyOnce ==
    \A n \in Nodes :
        /\ RoundReturned(n) =>
              /\ sweepLock # n
              /\ unlockCalls[n] = (IF acquired[n] THEN 1 ELSE 0)
              /\ roundErr[n] = "OperationTimedOut" <=> ~acquired[n]
        /\ (InSweepBody(n) \/ spc[n] = "deferUnlock") =>
              acquired[n] /\ unlockCalls[n] = 0
        /\ spc[n] \in {"loop", "sleep88", "round", "lockWait"} => sweepLock # n

\* C2 witness: a round that ended with a Walk error has released the lock
\* once, while another round ended on a lock timeout.
C2_Witness ==
    \E m \in Nodes : \E n \in Nodes :
        /\ spc[m] = "switch" /\ roundErr[m] = "WalkError" /\ unlockCalls[m] = 1
        /\ spc[n] = "switch" /\ roundErr[n] = "OperationTimedOut"
        /\ unlockCalls[n] = 0

\* C3: in an iteration where the latest lifecycle activity is non-zero and
\* less than bgLifecycleInterval old, lifecycleRound is not called: the
\* node only sleeps the tick and starts the loop over.
C3_NoRoundWhenRecentlyActive ==
    \A n \in Nodes : recent[n] => spc[n] \in {"sleep88", "loop"}

(***************************************************************************)
(* Properties of the cache.                                                *)
(***************************************************************************)
\* This step ends an operation op of thread p.
Completes(p, op) == cpc[p] # "done" /\ cpc'[p] = "done" /\ ret'[p].op = op

\* No operation is under way.
Quiescent == \A p \in AllClients : cpc[p] \in {"idle", "done"}

\* C4: when CreateObject(bucket, key, data) succeeds, GetObject of the key
\* returns exactly data and its length, and GetObjectMetadata reports the
\* size and the MD5 digest of data.
C4_CreateThenGet ==
    [][\A p \in AllClients :
       (Completes(p, "CreateObject") /\ ret'[p].err = "nil") =>
       \A b \in BucketArgs : \A k \in ObjectArgs : \A d \in Payloads :
         (ret'[p].bucket = b /\ ret'[p].key = k /\ ret'[p].data = d)
         => /\ GetObjectOutcome(b, k)' = [err |-> "nil", n |-> Len(d), out |-> d]
            /\ GetObjectMetadataOutcome(b, k)' =
                 [err |-> "nil",
                  meta |-> [Size |-> Len(d), MD5Sum |-> HexEncode(Md5Sum(d))]]
      ]_vars

\* C5: when no operation is under way, bytes are resident under a key
\* bucket/object only if that bucket holds an objectMetadata record for
\* the key.
C5_ResidencyAgreement ==
    Quiescent =>
      \A b \in BucketArgs : \A o \in ObjectArgs :
        ObjectKey(b, o) \in DOMAIN cacheObjects =>
          /\ b \in DOMAIN storedBuckets
          /\ HasMetadata(storedBuckets[b], ObjectKey(b, o))

\* the digest string x is valid base64 of something else than the MD5 of d
MismatchedDigest(x, d) ==
    x.enc # "none" /\ Base64Decode(x).ok /\ Base64Decode(x).raw # Md5Sum(d)

\* C6: a CreateObject whose digest is well-formed but is not the digest of
\* the bytes never succeeds; when the bytes have been read it fails with
\* BadDigest, and then the bucket has no objectMetadata record for the key
\* and, without a backend, GetObjectMetadata fails with ObjectNotFound.  A
\* CreateObject whose digest is not base64 ends in its first step, with
\* nothing read or stored, and with InvalidDigest when the size, the names,
\* the bucket and the absence of the key are in order.
C6_DigestChecked ==
    [][\A p \in AllClients :
       Completes(p, "CreateObject") =>
       \A b \in BucketArgs : \A k \in ObjectArgs : \A d \in Payloads :
         (ret'[p].bucket = b /\ ret'[p].key = k /\ ret'[p].data = d)
         => /\ MismatchedDigest(ret'[p].expected, d) =>
                 /\ ret'[p].err # "nil"
                 /\ cpc[p] = "coFinish" => ret'[p].err = "BadDigest"
                 /\ ret'[p].err = "BadDigest" =>
                      /\ ~HasMetadata(storedBuckets[b], ObjectKey(b, k))'
                      /\ ~donut =>
                           GetObjectMetadataOutcome(b, k)'.err = "ObjectNotFound"
            /\ ret'[p].expected = BadBase64 =>
                 /\ cpc[p] = "idle"
                 /\ ret'[p].err # "nil"
                 /\ UNCHANGED <<cacheObjects, heap, storedBuckets, donutObjects>>
                 /\ ( /\ Len(d) <= maxSize
                      /\ IsValidBucket(b) /\ IsValidObjectName(k)
                      /\ b \in DOMAIN storedBuckets
                      /\ ~HasMetadata(storedBuckets[b], ObjectKey(b, k)) )
                    => ret'[p].err = "InvalidDigest"
      ]_vars

\* C6 witness: without a backend, a CreateObject of one byte with the
\* digest of other bytes has failed with BadDigest.
C6_Witness ==
    \E p \in AllClients :
        /\ ~donut
        /\ cpc[p] = "done" /\ ret[p].op = "CreateObject"
        /\ ret[p].err = "BadDigest"
        /\ Len(ret[p].data) = 1
        /\ MismatchedDigest(ret[p].expected, ret[p].data)

\* how often name x occurs in the list
Occurrences(list, x) == Cardinality({i \in DOMAIN list : list[i] = x})

C8_BucketCeiling == NumBuckets <= totalBuckets

\* the keys the byte cache drops in this step
Evicted == (DOMAIN cacheObjects) \ (DOMAIN cacheObjects')

\* C9: a step in which the byte cache drops entries removes the
\* objectMetadata records of the dropped keys from every stored bucket and
\* leaves every other record as it was; GetObjectMetadata of a dropped key
\* then fails with ObjectNotFound without a backend and returns the
\* backend's metadata with one, and the GetObjectMetadata that asked the
\* backend leaves its answer recorded in the bucket.
C9_EvictionDropsMetadata ==
    [][/\ Evicted # {} =>
            \A b \in DOMAIN storedBuckets :
            LET i == storedBuckets[b].objectMetadata
            IN   /\ \A key \in Evicted : key \notin DOMAIN heap'[i]
                 /\ \A key \in (DOMAIN heap[i]) \ Evicted :
                      key \in DOMAIN heap'[i] /\ heap'[i][key] = heap[i][key]
                 /\ storedBuckets'[b] = storedBuckets[b]
       /\ Evicted # {} =>
            \A b \in BucketArgs : \A k \in ObjectArgs :
            ( ObjectKey(b, k) \in Evicted /\ b \in DOMAIN storedBuckets )
            => GetObjectMetadataOutcome(b, k)' =
                 IF donut /\ ObjectKey(b, k) \in DOMAIN donutObjects
                 THEN [err |-> "nil",
                       meta |-> DonutMetadata(donutObjects[ObjectKey(b, k)])]
                 ELSE [err |-> "ObjectNotFound", meta |-> NoMeta]
       /\ \A p \in AllClients :
            (cpc[p] = "gmStore" /\ Completes(p, "GetObjectMetadata")) =>
            \A b \in BucketArgs : \A k \in ObjectArgs :
            (ret'[p].bucket = b /\ ret'[p].key = k)
            => /\ ret'[p].err = "nil"
               /\ ret'[p].meta = DonutMetadata(donutObjects[ObjectKey(b, k)])
               /\ GetObjectMetadataOutcome(b, k)' =
                    [err |-> "nil", meta |-> ret'[p].meta]
               /\ (HasMetadata(storedBuckets[b], ObjectKey(b, k)))'
      ]_vars

\* C9 witness: without a backend, foo/obj was created and has since been
\* evicted: neither its bytes nor its metadata record are left, and
\* GetObjectMetadata would fail with ObjectNotFound.
C9_Witness ==
    \E p \in AllClients :
        /\ ~donut
        /\ cpc[p] = "done" /\ ret[p].op = "CreateObject" /\ ret[p].err = "nil"
        /\ ret[p].bucket = foo /\ ret[p].key = obj
        /\ foo \in DOMAIN storedBuckets
        /\ ObjectKey(foo, obj) \notin DOMAIN cacheObjects
        /\ ~HasMetadata(storedBuckets[foo], ObjectKey(foo, obj))
        /\ GetObjectMetadataOutcome(foo, obj).err = "ObjectNotFound"

\* C10: a GetPartialObject never ends in a panic and never leaves the read
\* lock held; on a resident object of size N it writes bytes
\* [start, start+length) and returns length when 0 <= start and
\* start+length <= N, and fails with InvalidRange, writing nothing, when
\* start < 0.
C10_PartialRead ==
    [][\A p \in AllClients :
         Completes(p, "GetPartialObject")
         => /\ ret'[p].err # "panic"
            /\ lockR' = lockR
            /\ ( /\ ret'[p].existed
                 /\ IsValidBucket(ret'[p].bucket)
                 /\ IsValidObjectName(ret'[p].key) )
               => /\ ret'[p].start < 0 =>
                       ret'[p].err = "InvalidRange" /\ ret'[p].out = <<>>
                  /\ ( /\ ret'[p].start >= 0
                       /\ ret'[p].start + ret'[p].length <= Len(ret'[p].data) )
                     => /\ ret'[p].err = "nil"
                        /\ ret'[p].n = ret'[p].length
                        /\ ret'[p].out = SubSeq(ret'[p].data, ret'[p].start + 1,
                                                ret'[p].start + ret'[p].length)
      ]_vars

\* C11: when GetObject or GetPartialObject succeeds on a miss with a
\* backend, the entry then cached under bucket/object is exactly the bytes
\* delivered to the caller, and a GetObject of the key returns the bytes
\* the backend holds.
C11_MissFillsCache ==
    [][\A p \in AllClients :
       ( /\ cpc[p] \in {"goSet", "gpSet"} /\ cpc'[p] = "done"
         /\ ret'[p].err = "nil" ) =>
       \A b \in BucketArgs : \A k \in ObjectArgs :
         (ret'[p].bucket = b /\ ret'[p].key = k)
         => /\ ObjectKey(b, k) \in DOMAIN cacheObjects'
            /\ cacheObjects'[ObjectKey(b, k)] = ret'[p].out
            /\ GetObjectOutcome(b, k)' =
                 [err |-> "nil", n |-> Len(donutObjects[ObjectKey(b, k)]),
                  out |-> donutObjects[ObjectKey(b, k)]]
      ]_vars

\* the step is the read step of a GetObject or GetPartialObject of thread
\* p that ends the operation
ReadEnds(p) ==
    /\ cpc[p] = "idle" /\ cpc'[p] = "done"
    /\ ret'[p].op \in {"GetObject", "GetPartialObject"}
    /\ IsValidBucket(ret'[p].bucket) /\ IsValidObjectName(ret'[p].key)

\* C12: a GetObject or GetPartialObject that finds the entry in the byte
\* cache does not call the backend, leaves the byte cache, the bucket map,
\* the metadata maps and the backend as they were, and what it writes is
\* taken from the entry: all of it for GetObject, bytes
\* [start, start+length) for an in-range GetPartialObject.  One that finds
\* no entry and has no backend fails with ObjectNotFound and also leaves
\* all of them as they were.
C12_HitAndColdMiss ==
    [][\A p \in AllClients :
       ReadEnds(p) =>
       \A b \in BucketArgs : \A k \in ObjectArgs :
         (ret'[p].bucket = b /\ ret'[p].key = k) =>
           /\ ObjectKey(b, k) \in DOMAIN cacheObjects =>
                /\ "donut.GetObject" \notin
                      {ret'[p].calls[i] : i \in DOMAIN ret'[p].calls}
                /\ UNCHANGED <<cacheObjects, storedBuckets, heap, donutObjects,
                               donutBuckets>>
                /\ (ret'[p].op = "GetObject" /\ ret'[p].err = "nil") =>
                     /\ ret'[p].out = cacheObjects[ObjectKey(b, k)]
                     /\ ret'[p].n = Len(cacheObjects[ObjectKey(b, k)])
                /\ ( /\ ret'[p].op = "GetPartialObject"
                     /\ ret'[p].start >= 0
                     /\ ret'[p].start + ret'[p].length
                          <= Len(cacheObjects[ObjectKey(b, k)]) )
                   => /\ ret'[p].err = "nil"
                      /\ ret'[p].out =
                           SubSeq(cacheObjects[ObjectKey(b, k)],
                                  ret'[p].start + 1,
                                  ret'[p].start + ret'[p].length)
           /\ ( /\ ObjectKey(b, k) \notin DOMAIN cacheObjects
                /\ ~donut
                /\ ret'[p].op = "GetObject" => b \in DOMAIN storedBuckets
                /\ ret'[p].op = "GetPartialObject" => ret'[p].start >= 0 )
              => /\ ret'[p].err = "ObjectNotFound"
                 /\ ret'[p].out = <<>>
                 /\ UNCHANGED <<cacheObjects, storedBuckets, heap, donutObjects,
                                donutBuckets>>
      ]_vars

\* C12 witness: with a backend configured, a GetObject was served one byte
\* from the entry in the byte cache without a call of the backend.
C12_Witness ==
    \E p \in AllClients :
        /\ donut
        /\ cpc[p] = "done" /\ ret[p].op = "GetObject" /\ ret[p].err = "nil"
        /\ ret[p].existed /\ Len(ret[p].out) = 1
        /\ ret[p].calls = <<"RLock", "RUnlock">>

\* a GetObject or GetPartialObject of thread p with an invalid bucket or
\* object name ends in this step
InvalidNameEnds(p) ==
    /\ Completes(p, "GetObject") \/ Completes(p, "GetPartialObject")
    /\ ~IsValidBucket(ret'[p].bucket) \/ ~IsValidObjectName(ret'[p].key)

Listed(p) == p \in clients /\ cpc[p] = "done" /\ ret[p].op = "ListObjects"

\* The names of the objects a bucket holds, and the names a listing returned.
HeldKeys(bucket) ==
    {Drop(objectKey, Len(bucket) + 1) :
        objectKey \in DOMAIN heap[storedBuckets[bucket].objectMetadata]}
ObjectsOf(list) == [i \in 1..Len(list) |-> list[i].Object]
IsSortedU(names) ==
    \A i \in 1..Len(names), j \in 1..Len(names) :
        i < j => LexLess(names[i], names[j])

\* The candidates of a request: the held keys that start with Prefix and
\* sort strictly after Marker; those of them that hold Delimiter after the
\* prefix.
Candidates(bucket, request) ==
    {k \in HeldKeys(bucket) :
        HasPrefix(k, request.Prefix) /\ LexLess(request.Marker, k)}
Folded(bucket, request) ==
    {k \in Candidates(bucket, request) :
        /\ request.Delimiter # <<>>
        /\ Contains(Drop(k, Len(request.Prefix)), request.Delimiter)}

\* C14: a listing with a non-empty delimiter that ends untruncated lists as
\* objects exactly the candidates that do not hold the delimiter after the
\* prefix, gives for every candidate that holds it the prefix followed by the
\* part up to and including the first delimiter among the common prefixes,
\* and both the objects and the common prefixes are sorted ascending without
\* duplicates.
C14_ListingFolds ==
    \A p \in AllClients :
        (/\ Listed(p)
         /\ ret[p].err = "nil"
         /\ ret[p].request.Delimiter # <<>>
         /\ ~ret[p].resources.IsTruncated)
        => LET b == ret[p].bucket
               request == ret[p].request
               folded == Folded(b, request)
               common == ret[p].resources.CommonPrefixes
           IN /\ ObjectsOf(ret[p].list)
                    = SortNames(Candidates(b, request) \ folded)
              /\ \A k \in folded :
                    LET rest == Drop(k, Len(request.Prefix))
                        upTo == Take(rest, Index(rest, request.Delimiter)
                                           + Len(request.Delimiter) - 1)
                    IN \E i \in 1..Len(common) :
                          common[i] = request.Prefix \o upTo
              /\ IsSortedU(ObjectsOf(ret[p].list))
              /\ IsSortedU(common)

\* The listing of TestMultipleNewObjects, lines 204-212: prefix "o" and
\* delimiter "1" over a bucket that holds exactly obj1 and obj2.
ListsObj1Obj2(p) ==
    /\ Listed(p)
    /\ ret[p].bucket = foo
    /\ HeldKeys(foo) = {obj1, obj2}
    /\ ret[p].request.Prefix = <<111>>
    /\ ret[p].request.Delimiter = <<49>>
    /\ ret[p].request.Marker = <<>>

\* C15: a listing with prefix "o", delimiter "1", no marker and maxKeys of at
\* least 1 over a bucket whose keys are exactly obj1 and obj2 succeeds with
\* the common prefixes {"obj1"}, the one listed object obj2 and isTruncated
\* false.
C15_Obj1FoldedObj2Listed ==
    \A p \in AllClients :
        (ListsObj1Obj2(p) /\ ret[p].request.Maxkeys >= 1)
        => /\ ret[p].err = "nil"
           /\ ret[p].resources.CommonPrefixes = <<obj1>>
           /\ ObjectsOf(ret[p].list) = <<obj2>>
           /\ ~ret[p].resources.IsTruncated

\* C15 as stated: the same listing returns the common prefixes {"obj1"}, no
\* listed object and isTruncated false.
C15_NoObjectListed ==
    \A p \in AllClients :
        ListsObj1Obj2(p)
        => /\ ret[p].err = "nil"
           /\ ret[p].resources.CommonPrefixes = <<obj1>>
           /\ ret[p].list = <<>>
           /\ ~ret[p].resources.IsTruncated

C15_Witness ==
    /\ ListsObj1Obj2(1)
    /\ ret[1].request.Maxkeys = 1
    /\ ret[1].resources.CommonPrefixes = <<obj1>>
    /\ ObjectsOf(ret[1].list) = <<obj2>>

\* The listable keys of a request in sorted order: the candidates that are
\* not folded into a common prefix.
Listable(bucket, request) ==
    SortNames(Candidates(bucket, request) \ Folded(bucket, request))

\* C16: a listing of a held bucket, with a prefix and a delimiter that are
\* empty or not blank, always returns a result; isTruncated is set exactly
\* when there are more listable keys than maxKeys, and then the first maxKeys
\* of them are returned and nextMarker is the last returned key if a
\* delimiter was set and is not set otherwise; else all listable keys are
\* returned.  An empty bucket gives no object, no new common prefix and
\* isTruncated false.
C16_Truncation ==
    \A p \in AllClients :
        (/\ Listed(p)
         /\ ret[p].bucket \in DOMAIN storedBuckets
         /\ ret[p].request.Prefix # <<32>>
         /\ ret[p].request.Delimiter # <<32>>)
        => LET request == ret[p].request
               listable == Listable(ret[p].bucket, request)
               returned == ObjectsOf(ret[p].list)
           IN /\ ret[p].err = "nil"
              /\ ret[p].resources.IsTruncated
                    <=> (Len(listable) > request.Maxkeys)
              /\ IF Len(listable) > request.Maxkeys
                 THEN /\ returned = Take(listable, request.Maxkeys)
                      /\ ret[p].resources.NextMarker
                            = IF request.Delimiter # <<>>
                              THEN returned[Len(returned)] ELSE <<>>
                 ELSE returned = listable
              /\ HeldKeys(ret[p].bucket) = {}
                    => /\ ret[p].list = <<>>
                       /\ ret[p].resources.CommonPrefixes
                             = request.CommonPrefixes

\* C17: ListBuckets returns the name of every bucket the cache holds exactly
\* once, in ascending order of name, and changes nothing in the cache (the
\* buckets counted by otherBuckets have no name in the model, so the listing
\* is compared with the held buckets when there are none of them).
C17_ListBucketsSortedAll ==
    [][\A p \in AllClients :
          Completes(p, "ListBuckets")
          => /\ ret'[p].err = "nil"
             /\ IsSortedU(ret'[p].list)
             /\ otherBuckets = 0
                   => /\ {ret'[p].list[i] : i \in 1..Len(ret'[p].list)}
                            = DOMAIN storedBuckets
                      /\ Len(ret'[p].list) = Cardinality(DOMAIN storedBuckets)
             /\ UNCHANGED <<donut, otherBuckets, storedBuckets, heap,
                            cacheObjects, lockR, lockW, donutBuckets,
                            donutObjects>>]_vars

C17_Witness ==
    /\ cpc[1] = "done"
    /\ ret[1].op = "ListBuckets"
    /\ otherBuckets = 0
    /\ DOMAIN storedBuckets = {foo, bar}
    /\ ret[1].list = <<bar, foo>>

\* Both threads have ended a successful CreateObject of the same object and
\* neither result is taken yet.
BothCreated(bucket, key) ==
    \A p \in AllClients :
        /\ cpc[p] = "done"
        /\ ret[p].op = "CreateObject" /\ ret[p].err = "nil"
        /\ ret[p].bucket = bucket /\ ret[p].key = key

\* C18: after two CreateObject calls for the same key have both succeeded,
\* the bytes resident under the key are the bytes of one of the two writers
\* and the recorded metadata gives the size and the MD5 of those bytes.
C18_LastWriteWins ==
    \A bucket \in BucketArgs, key \in ObjectArgs :
        (BothCreated(bucket, key) /\ ObjectKey(bucket, key) \in DOMAIN cacheObjects)
        => LET objectKey == ObjectKey(bucket, key)
               resident == cacheObjects[objectKey]
           IN /\ resident \in {ret[p].data : p \in AllClients}
              /\ HasMetadata(storedBuckets[bucket], objectKey)
              /\ heap[storedBuckets[bucket].objectMetadata][objectKey]
                    = [Size |-> Len(resident),
                       MD5Sum |-> HexEncode(Md5Sum(resident))]

\* Thread p is at a statement that reads or writes one of the ledger's maps.
InLedgerMaps(p) ==
    ReadsUploads(p) \/ WritesUploads(p) \/ ReadsBuckets(p) \/ WritesBuckets(p)

\* C19: a thread that reads or writes the bucket map or the upload map
\* inside an entry point holds the ledger lock, so no two threads are in the
\* maps at once and the runtime never finds a concurrent map access.
C19_MapsUnderLedgerLock ==
    /\ \A p \in ledgerClients : InLedgerMaps(p) => ledgerLock = p
    /\ \A p, q \in ledgerClients :
          p # q => ~(InLedgerMaps(p) /\ InLedgerMaps(q))
    /\ ~ledgerFatal

\* The operation op of thread p ends in this step.
LedgerCompletes(p, op) ==
    lpc[p] # "done" /\ lpc'[p] = "done" /\ lret'[p].op = op

\* C20: AbortMultipartUpload on a tracked bucket, and likewise
\* MultipartIDExists, GetObjectParts and PutObjectPart on a tracked bucket,
\* called with an upload id that has no session (none was created under it,
\* or it was aborted) return ErrInvalidUploadID and leave the sessions as
\* they are.
C20_UnknownUploadID ==
    [][\A p \in AllClients :
       \A op \in {"AbortMultipartUpload", "MultipartIDExists",
                  "GetObjectParts", "PutObjectPart"} :
          (/\ LedgerCompletes(p, op)
           /\ lret'[p].id \notin DOMAIN MultipartUploads.items
           /\ op \in {"AbortMultipartUpload", "PutObjectPart"}
                 => lret'[p].bucket \in DOMAIN Buckets)
          => /\ lret'[p].err = "ErrInvalidUploadID"
             /\ UNCHANGED MultipartUploads]_vars

C24_PutObjectPart ==
    [][\A p \in AllClients :
          LedgerCompletes(p, "PutObjectPart")
          => \A name \in LedgerBuckets, id \in UploadIDs :
                (lret'[p].bucket = name /\ lret'[p].id = id)
                => IF name \notin DOMAIN Buckets
                   THEN /\ lret'[p].err = "ErrLedgerBucketDoesNotExist"
                        /\ MultipartUploads' = MultipartUploads
                   ELSE IF id \notin DOMAIN MultipartUploads.items
                   THEN /\ lret'[p].err = "ErrInvalidUploadID"
                        /\ MultipartUploads' = MultipartUploads
                   ELSE /\ lret'[p].err = "nil"
                        /\ MultipartUploads' =
                              [MultipartUploads EXCEPT
                                  !.items[id].ObjectParts =
                                      Append(@, lret'[p].part)]]_vars

\* C25: in every state the parts of each session are in ascending order of
\* their part numbers (the list GetObjectParts returns).
C25_PartsOrdered ==
    \A id \in DOMAIN MultipartUploads.items :
       LET parts == MultipartUploads.items[id].ObjectParts
       IN \A i, j \in 1..Len(parts) :
             i < j => parts[i].Number <= parts[j].Number

\* the data hashes of a list of parts, in the order of the list
DataHashes(parts) == [i \in 1..Len(parts) |-> parts[i].DataHash]

\* C26: GetMultipartHashes never changes the buckets or the sessions; on an
\* untracked bucket it returns ErrLedgerBucketDoesNotExist, on a tracked
\* bucket with an upload id that names no session ErrInvalidUploadID, and on
\* a tracked bucket with the id of a session it succeeds and returns the
\* data hashes of the parts of that session, one for each part and in the
\* order of the parts.
C26_GetMultipartHashes ==
    [][\A p \in AllClients :
          LedgerCompletes(p, "GetMultipartHashes")
          => \A name \in LedgerBuckets, id \in UploadIDs :
                (lret'[p].bucket = name /\ lret'[p].id = id)
                => /\ UNCHANGED <<Buckets, MultipartUploads>>
                   /\ IF name \notin DOMAIN Buckets
                      THEN lret'[p].err = "ErrLedgerBucketDoesNotExist"
                      ELSE IF id \notin DOMAIN MultipartUploads.items
                      THEN lret'[p].err = "ErrInvalidUploadID"
                      ELSE /\ lret'[p].err = "nil"
                           /\ lret'[p].hashes =
                                 DataHashes(MultipartUploads.items[id].ObjectParts)]_vars

\* C27: a call of PutObjectPart, AbortMultipartUpload or GetMultipartHashes
\* with a tracked bucket and the id of a session of another bucket, or of
\* PutObjectPart with the id of a session of another object, leaves the
\* sessions as they are and does not succeed: the session is neither
\* changed, nor deleted, nor read.
C27_SessionScope ==
    [][\A p \in AllClients :
          (\/ LedgerCompletes(p, "PutObjectPart")
           \/ LedgerCompletes(p, "AbortMultipartUpload")
           \/ LedgerCompletes(p, "GetMultipartHashes"))
          => \A name \in LedgerBuckets, id \in UploadIDs :
                (/\ lret'[p].bucket = name /\ lret'[p].id = id
                 /\ name \in DOMAIN Buckets
                 /\ id \in DOMAIN MultipartUploads.items
                 /\ \/ MultipartUploads.items[id].Bucket # name
                    \/ /\ lret'[p].op = "PutObjectPart"
                       /\ MultipartUploads.items[id].Object # lret'[p].object)
                => /\ MultipartUploads' = MultipartUploads
                   /\ lret'[p].err # "nil"]_vars

\* C28: the loop of each node goes on for ever: at every moment, whatever
\* the rounds so far returned, a start of a new iteration and a call of
\* lifecycleRound are still to come.  After the round the loop sleeps
\* bgLifecycleTick when the round returned the lock timeout, and the minute
\* of the back-off when it returned anything else; the node is never
\* anywhere but in the loop, and no other sleep occurs than these two and
\* the tick of line 88.
C28_LoopNeverStops ==
    /\ \A n \in Nodes : []<>(spc[n] = "loop") /\ []<>(spc[n] = "round")
    /\ [](\A n \in Nodes :
            /\ spc[n] = "sleep97"
                  => roundErr[n] = "OperationTimedOut"
                     /\ sleepFor[n] = bgLifecycleTick
            /\ spc[n] = "sleep100"
                  => roundErr[n] # "OperationTimedOut"
                     /\ sleepFor[n] = backoffMinute
            /\ spc[n] \in {"loop", "sleep88", "round", "lockWait",
                            "listBuckets", "bucketLoop", "walk", "batch",
                            "delete", "notify", "deferUnlock", "switch",
                            "sleep97",
                            "sleep100"}
            /\ sleepFor[n] \in {0, bgLifecycleTick, backoffMinute})

\* One node sleeps the back-off after a round that Walk failed, while the
\* other sleeps the tick after the lock timeout.
C28_Witness ==
    \E m \in Nodes : \E n \in Nodes :
        /\ spc[m] = "sleep100" /\ roundErr[m] = "WalkError"
        /\ sleepFor[m] = backoffMinute
        /\ spc[n] = "sleep97" /\ roundErr[n] = "OperationTimedOut"
        /\ sleepFor[n] = bgLifecycleTick

\* C29: when a round of node n has returned nil, the LastActivity the node
\* reports (getLocalBgLifecycleOpsStatus) is not the zero time: it is a
\* time the clock has read.
C29_LastActivityAfterRound ==
    \A n \in Nodes :
        (RoundReturned(n) /\ acquired[n] /\ roundErr[n] = "nil")
        => LastActivity[n] # 0 /\ LastActivity[n] \in Times

\* C30: a DeleteObjects call of the sweeper names at least one and at most
\* maxObjectList objects, each of them an object of the bucket being walked
\* for which ComputeAction gives DeleteAction; only buckets with a lifecycle
\* policy are walked, and the objects of a bucket without one stay.
C30_DeleteBatches ==
    \A n \in Nodes :
        /\ spc[n] = "delete"
              => /\ Len(objects[n]) >= 1
                 /\ Len(objects[n]) <= maxObjectList
                 /\ \A i \in 1..Len(objects[n]) :
                       /\ objects[n][i] \in InitialStore[cur[n]]
                       /\ IsDeleteAction(cur[n], objects[n][i])
        /\ spc[n] \in {"walk", "batch", "delete", "notify"}
              => HasLifecycle(cur[n])
        /\ \A b \in DOMAIN store : ~HasLifecycle(b) => store[b] = InitialStore[b]

\* The second request of a walk of b1: the first was full with o1 and o4
\* and has deleted them, and o6 goes in a request of its own.
C30_Witness ==
    \E n \in Nodes :
        /\ spc[n] = "delete" /\ cur[n] = "b1"
        /\ objects[n] = <<"o6">>
        /\ store["b1"] = {"o2", "o5", "o6"}

\* C31: the events change only in the loop over the results of a
\* DeleteObjects call, and what that loop adds is, when the call returned no
\* error, the ObjectRemovedDelete event of the bucket and the name of every
\* object whose own result is nil, and nothing when the call returned an
\* error; an object with an error gets no event and takes none from the
\* others, and the next batch of the round follows in every case.
C31_EventPerDeletedObject ==
    [][\A n \in Nodes :
          /\ (spc[n] = "notify" /\ spc'[n] # "notify")
                => /\ spc'[n] = "batch"
                   /\ \A i \in 1..Len(objects[n]) :
                         LET ev == ObjectRemovedDelete(cur[n], objects[n][i])
                         IN IF /\ deleteErrs[n].err = "nil"
                               /\ deleteErrs[n].errs[i] = "nil"
                            THEN ev \in events'
                            ELSE ev \in events' <=> ev \in events
                   /\ \A ev \in events' \ events :
                         \E i \in 1..Len(objects[n]) :
                            ev = ObjectRemovedDelete(cur[n], objects[n][i])
          /\ (\A m \in Nodes : ~(spc[m] = "notify" /\ spc'[m] # "notify"))
                => events' = events]_vars

\* The second request of a walk is about to be sent; of the first, o1 had
\* an error and is still stored, and o4 was deleted and has its event, the
\* only one so far.
C31_Witness ==
    \E n \in Nodes :
        /\ spc[n] = "delete" /\ cur[n] = "b1"
        /\ objects[n] = <<"o6">>
        /\ store["b1"] = {"o1", "o2", "o5", "o6"}
        /\ events = {ObjectRemovedDelete("b1", "o4")}

\* the elements of a sequence
Range(seq) == {seq[i] : i \in 1..Len(seq)}

\* C32: collecting a batch takes from the stream of the walk only objects it
\* evaluates: every object the step receives for which ComputeAction gives
\* DeleteAction is in the batch the step hands to DeleteObjects, the one
\* received when the batch is full included, and an object is streamed
\* only once.
C32_NoObjectDropped ==
    [][\A n \in Nodes :
          (spc[n] = "batch" /\ spc'[n] # "batch")
          => /\ \A o \in Range(objInfoCh[n]) \ Range(objInfoCh'[n]) :
                   IsDeleteAction(cur[n], o) => o \in Range(objects'[n])
             /\ \A i, j \in 1..Len(objInfoCh[n]) :
                   objInfoCh[n][i] = objInfoCh[n][j] => i = j]_vars

\* thread p is at line 253 of GetBucketMetadata with the read lock it took
\* at line 231
HoldsRLock(p) == cpc[p] = "gbmRUnlock" /\ loc[p].existed

\* C33: the lock of the cache is balanced: the read locks held are those of
\* the threads that are inside an operation with the read lock, the write
\* lock is free whenever no thread is inside a step that holds it, and no
\* operation releases a lock it does not hold.
C33_LockBalance ==
    /\ lockR = Cardinality({p \in clients : HoldsRLock(p)})
    /\ ~lockW
    /\ \A p \in clients : ret[p].err # "fatal"


\* thread p takes a step inside a section of the write lock: it was waiting
\* at cache.lock.Lock() and the lock was free
WriteSectionStep(p) ==
    /\ cpc[p] \in {"gbmStore", "sbmStore"}
    /\ cpc'[p] # cpc[p]
    /\ CanLock

\* thread p takes the step of line 254, which reads the bucket map
ReadsBucketMap(p) == cpc[p] = "gbmReturn" /\ cpc'[p] # "gbmReturn"

\* C34: the bucket map and the metadata maps change only in a step of a
\* thread inside a section of the write lock, and a thread that reads the
\* bucket map holds the read lock.
C34_MapsUnderLock ==
    [][/\ (storedBuckets' # storedBuckets \/ heap' # heap)
              => \E p \in clients : WriteSectionStep(p)
       /\ \A p \in clients : ReadsBucketMap(p) => HoldsRLock(p)]_vars


\* CreateObject(b, k, d) is refused for its key: the key has a metadata
\* record, the call fails with ObjectExists, and the bytes resident in the
\* cache, the metadata maps and the backend's objects are as before.
RefusedForKey(p, b, k, d) ==
    (/\ Len(d) <= maxSize
     /\ IsValidBucket(b) /\ IsValidObjectName(k)
     /\ b \in DOMAIN storedBuckets
     /\ HasMetadata(storedBuckets[b], ObjectKey(b, k)))
    => /\ cpc[p] = "idle"
       /\ ret'[p].err = "ObjectExists"
       /\ cacheObjects' = cacheObjects
       /\ heap' = heap
       /\ storedBuckets' = storedBuckets
       /\ donutObjects' = donutObjects

\* C35: a CreateObject on a key that has a metadata record fails with
\* ObjectExists, reads nothing and leaves bytes and metadata as they are;
\* a CreateObject on a key without a record, as eviction leaves it, can
\* succeed, and when it succeeds in a cache without a backend the bytes
\* resident under the key are those it wrote.
C35_ExistsUntilEvicted ==
    [][\A p \in AllClients :
       Completes(p, "CreateObject") =>
       \A b \in BucketArgs : \A k \in ObjectArgs : \A d \in Payloads :
         (ret'[p].bucket = b /\ ret'[p].key = k /\ ret'[p].data = d)
         => /\ RefusedForKey(p, b, k, d)
            /\ (ret'[p].err = "nil" /\ ~donut)
                 => (ObjectKey(b, k) \in DOMAIN cacheObjects'
                         => cacheObjects'[ObjectKey(b, k)] = d)
      ]_vars

=============================================================================
